---- MODULE Spec2Model ----
(***************************************************************************)
(* State-machine model of the bitnode monitor: the main loop of            *)
(* MonitorController.run (stall detector, recovery gate, DATUM watchdog,   *)
(* system-metric alerts) and the Bitaxe poll loop (BitaxeChecker.tick).    *)
(*                                                                         *)
(* Time is a whole number of units read from one wall clock; one unit is   *)
(* 200 s, so the hard-coded min_recovery_interval of 600 s is 3 units.  The *)
(* other durations are environment settings, given small values here.      *)
(* Nullable fields hold None.                                              *)
(*                                                                         *)
(* The body of the main loop runs as four steps, always in this order:     *)
(* ReadHeights (lines 267-344), DatumStep (347), MetricsStep (350-369) and *)
(* SleepStep (371-384); pc is the loop's position.  The Bitaxe poll loop   *)
(* and the Telegram command thread take their steps between them.          *)
(***************************************************************************)
EXTENDS Integers, Sequences, FiniteSets, TLC

VARIABLES
    clock,                      \* time.time()
    pc,                         \* position of the main loop in its body
    loop_start,                 \* the local loop_start of the tick under way
    enable_auto_restart,        \* ENABLE_AUTO_RESTART == "1"
    telegram_enabled,           \* telegram_service and telegram_service.client
    log_writable,               \* the log file can be appended to
    last_height_change_time,
    last_fulcrum_height,
    last_logged_height,
    stall_notified,
    last_recovery_time,
    datum_last_alert_ts,
    datum_last_zero_client_alert_ts,
    datum_last_job_ts,
    datum_last_job_info,
    ev,                         \* what ReadHeights read and did (while pc = "datum")
    dev,                        \* what watchdog_tick read and did (while pc = "metrics")
    mev,                        \* the metric alerts of the latest MetricsStep
    audit,                      \* Logger.log / send_text calls of the latest tick, in order
    episode_alerts,             \* stall alerts since the recorded height last changed
    episode_due,                \* a tick of this episode saw the height frozen past the threshold
    bitaxe_last_snapshot,
    bitaxe_last_accept_change_ts,
    bitaxe_last_urgent_ts,
    bitaxe_last_fallback_ts,
    bev,                        \* what the latest BitaxeChecker.tick read and did
    bitaxe_emit,                \* per alert kind, when the Bitaxe loop last emitted it
    bitaxe_audit,               \* Logger.log / send_text calls of the latest Bitaxe pass
    bitaxe_loop,                \* "running", or "stopped" once an exception left _bitaxe_loop
    window,                     \* SpeedTracker.window (SPEED_WINDOW)
    samples,                    \* SpeedTracker.samples: rates dh/dt kept as <<dh, dt>>
    last_height,                \* SpeedTracker.last_height
    last_time,                  \* SpeedTracker.last_time
    sev,                        \* what the latest SpeedTracker.update was given and did
    tg_audit,                   \* Logger.log / send_text calls of the latest Telegram command
    fulcrum_restarted_at,       \* when systemctl restart of Fulcrum last succeeded
    monitor_log,                \* the "Heights:" samples of monitor.log, as _parse_monitor_log returns them
    eta_out,                    \* what the latest compute_eta_and_charts returned
    speed_samples,              \* the samples load_samples_since_restart returns
    window_out,                 \* what the latest _compute_eta_window returned
    tg_offset,                  \* TelegramService._offset
    tg_update,                  \* the update _handle_update was last given
    tg_reply,                   \* what _handle_update did with it
    tg_batch,                   \* the update ids of the last getUpdates answer
    tg_handled,                 \* the ids _handle_update was called with, in order
    tg_raised,                  \* the ids whose _handle_update raised
    ctl_env,                    \* bitnode_control: the lines of local.env
    ctl_last_restart_ts,        \* bitnode_control._last_restart_ts
    ctl_now,                    \* the control server's clock, in minutes
    ctl_requests,               \* POST requests served so far
    cev                         \* the last POST and what do_POST did with it

main_vars == <<last_height_change_time, last_fulcrum_height, last_logged_height,
               stall_notified, last_recovery_time>>
datum_vars == <<datum_last_alert_ts, datum_last_zero_client_alert_ts,
                datum_last_job_ts, datum_last_job_info>>
main_obs == <<ev, dev, mev, audit, episode_alerts, episode_due>>
bitaxe_state == <<bitaxe_last_snapshot, bitaxe_last_accept_change_ts,
                  bitaxe_last_urgent_ts, bitaxe_last_fallback_ts>>
bitaxe_vars == <<bitaxe_state, bev, bitaxe_emit, bitaxe_audit, bitaxe_loop>>
speed_state == <<samples, last_height, last_time>>
speed_vars == <<window, speed_state, sev>>
config_vars == <<enable_auto_restart, telegram_enabled, log_writable>>
eta_vars == <<monitor_log, eta_out, speed_samples, window_out>>
update_vars == <<tg_offset, tg_update, tg_reply, tg_batch, tg_handled, tg_raised>>
control_vars == <<ctl_env, ctl_last_restart_ts, ctl_now, ctl_requests, cev>>
vars == <<clock, pc, loop_start, config_vars, main_vars, datum_vars, main_obs,
          bitaxe_vars, speed_vars, tg_audit, fulcrum_restarted_at, eta_vars,
          update_vars, control_vars>>

None == -1

\* a probe whose child process never exits: subprocess.check_output is given
\* no timeout (system_info.py lines 39-47 and 59-62), so the call never returns
Hang == -2

\* ---------------------------------------------------------------- bounds
StartTime == 10         \* the clock when the process starts (far above every duration)
Horizon == 7            \* ticks are explored while clock < StartTime + Horizon
MaxHeight == 2          \* heights read are 1..MaxHeight
MaxLatency == 2         \* the health probe takes 0..MaxLatency units
MaxShares == 1          \* accepted-share counts read are 0..MaxShares
MaxWindow == 2          \* SPEED_WINDOW settings explored are 0..MaxWindow
MaxUpdates == 4         \* SpeedTracker.update calls explored on a tracker used alone
ShortHorizon == 4       \* the horizon where the threads run together
MaxLog == 5              \* "Heights:" samples in monitor.log
MaxSpeedLines == 4       \* "Heights:" lines of one Fulcrum run in the speed report
MaxUpdateId == 2         \* update ids the Telegram thread is polled with
MaxPolledId == 4        \* update ids getUpdates answers with, batch by batch
MaxBatch == 2           \* updates in one getUpdates answer
MaxRequests == 3        \* POST requests the control server is given
BitaxeHorizon == 2      \* the Bitaxe loop's horizon where it runs beside a full main loop

\* ------------------------------------------------------- configured values
check_interval == 1
stall_threshold == 1
min_recovery_interval == 3
rpc_latency_threshold == 1
cpu_alert_threshold == 90
ram_alert_threshold == 90
ssd_temp_threshold == 65
datum_cooldown_sec == 2
datum_no_job_sec == 1
bitaxe_check_interval == 1
bitaxe_min_hashrate_hs == 200
bitaxe_no_share_sec == 2
bitaxe_alert_cooldown_sec == 2
speed_window == 1

Max(a, b) == IF a >= b THEN a ELSE b

Heights == 1..MaxHeight
NoJob == [clients |-> None, timestamp |-> None]

\* ------------------------------------------------ the stall / recovery path

HeightsReadable_FulcrumOnly(btc_height, ful_height) ==
    ful_height # None

\* line 272: both heights were read
HeightsReadable(btc_height, ful_height) ==
    btc_height # None /\ ful_height # None

HeightChanged_Inverted(ful_height) ==
    last_fulcrum_height = None \/ ful_height = last_fulcrum_height

HeightChanged_Always(ful_height) ==
    TRUE

\* line 276: the Fulcrum height is a new data point
HeightChanged(ful_height) ==
    last_fulcrum_height = None \/ ful_height # last_fulcrum_height

StallDue_Retrigger(now) ==
    /\ last_height_change_time # None
    /\ now - last_height_change_time > stall_threshold

StallDue_NonStrict(now) ==
    /\ last_height_change_time # None
    /\ now - last_height_change_time >= stall_threshold
    /\ ~stall_notified

\* lines 304-306: the stall alert is due on this tick
StallDue(now) ==
    /\ last_height_change_time # None
    /\ now - last_height_change_time > stall_threshold
    /\ ~stall_notified

RecoveryAllowed_NoRateLimit(now) ==
    enable_auto_restart

RecoveryAllowed_NonStrict(now) ==
    enable_auto_restart /\ (now - last_recovery_time >= min_recovery_interval)

\* line 321: feature flag, then rate limit
RecoveryAllowed(now) ==
    enable_auto_restart /\ (now - last_recovery_time > min_recovery_interval)

ProbeUnhealthy_IgnoresLatency(test_height, rpc_latency) ==
    test_height = None

\* line 326: the bitcoind health probe failed or was slow
ProbeUnhealthy(test_height, rpc_latency) ==
    test_height = None \/ rpc_latency > rpc_latency_threshold

\* service_control.restart_fulcrum, line 9: whether systemctl restart is reached
RestartReached(force, enable) ==
    ~(~force /\ ~enable)

StallRecovery_FlagDropped(now, test_height, rpc_latency) ==
    IF ~(now - last_recovery_time > min_recovery_interval) THEN "skipped"
    ELSE IF ProbeUnhealthy(test_height, rpc_latency) THEN "unhealthy"
    ELSE "restarted"

\* lines 319-342: the outcome of the auto-restart path on a notified stall.
\* "skipped": the flag or the rate limit stopped it before the probe;
\* "unhealthy": the probe ran and failed; "restarted": systemctl restart was
\* reached; "refused": restart_fulcrum returned at its own flag check.
StallRecovery(now, test_height, rpc_latency) ==
    IF ~RecoveryAllowed(now) THEN "skipped"
    ELSE IF ProbeUnhealthy(test_height, rpc_latency) THEN "unhealthy"
    ELSE IF RestartReached(FALSE, enable_auto_restart) THEN "restarted"
    ELSE "refused"

\* ------------------------------------------------------ the DATUM watchdog

\* datum_monitor.py lines 206 and 239: the gate on _last_alert_ts
DatumAlertDue(now) ==
    (now - datum_last_alert_ts) >= datum_cooldown_sec

\* datum_monitor.py line 225: the gate on _last_zero_client_alert_ts
DatumZeroClientDue(now) ==
    (now - datum_last_zero_client_alert_ts) >= datum_cooldown_sec

JobSeen_ServiceDown(active, job) ==
    job # NoJob

\* datum_monitor.py lines 205-219: the journal is parsed only past the return
\* of the 'not active' branch, and a job line was found in it
JobSeen(active, job) ==
    active /\ job # NoJob

\* DatumMonitor.watchdog_tick: the new field values and the alerts emitted
WatchdogTick(now, active, job) ==
    LET inactive_alert == ~active /\ DatumAlertDue(now)
        job_seen == JobSeen(active, job)
        job_ts == IF job_seen THEN job.timestamp ELSE datum_last_job_ts
        job_info == IF job_seen THEN job ELSE datum_last_job_info
        zero_detected == job_seen /\ job.clients = 0
        zero_alert == zero_detected /\ DatumZeroClientDue(now)
        nojob_detected == active /\ job_ts # None /\ now - job_ts > datum_no_job_sec
        nojob_alert == nojob_detected /\ DatumAlertDue(now)
    IN  [ last_alert_ts |-> IF inactive_alert \/ nojob_alert
                            THEN now ELSE datum_last_alert_ts,
          last_zero_client_alert_ts |-> IF zero_alert
                            THEN now ELSE datum_last_zero_client_alert_ts,
          last_job_ts |-> job_ts,
          last_job_info |-> job_info,
          now |-> now,
          active |-> active,
          job_read |-> active,
          inactive_alert |-> inactive_alert,
          zero_detected |-> zero_detected,
          zero_alert |-> zero_alert,
          nojob_detected |-> nojob_detected,
          nojob_alert |-> nojob_alert ]

Dispatch_Retry(kind, tg_up) ==
    IF ~telegram_enabled THEN <<>>
    ELSE IF tg_up THEN << <<"send", kind>> >>
    ELSE << <<"send", kind>>, <<"log", "TG sendMessage error">>, <<"send", kind>> >>

\* TelegramClient.send_text when a client exists: _post swallows a failed
\* request and logs it (telegram_service.py lines 19-26), once, with no retry
Dispatch(kind, tg_up) ==
    IF ~telegram_enabled THEN <<>>
    ELSE IF tg_up THEN << <<"send", kind>> >>
    ELSE << <<"send", kind>>, <<"log", "TG sendMessage error">> >>

\* Logger.log (logger_util.py lines 10-19) prints the line and appends it to
\* the log file; a failed append is swallowed and the line is lost
LogLost(logged) ==
    logged /\ ~log_writable

Alert_SendFirst(kind, tg_up) ==
    Dispatch(kind, tg_up) \o << <<"log", kind>> >>

\* one alert: the audit record, then the dispatch
Alert(kind, tg_up) ==
    << <<"log", kind>> >> \o Dispatch(kind, tg_up)

\* service_control.restart_fulcrum (lines 5-23): its calls, in order
RestartFulcrum(force, enable, restart_ok, tg_up) ==
    IF ~RestartReached(force, enable)
    THEN Alert("STALL auto-restart disabled", tg_up)
    ELSE << <<"log", "RECOVERY restarting fulcrum">> >>
         \o (IF restart_ok THEN Alert("RECOVERY fulcrum restart triggered", tg_up)
             ELSE Alert("ERR failed to restart fulcrum", tg_up))

RecoveryTimeAfter_AnyCaller(caller, now) ==
    now

\* last_recovery_time after a call of restart_fulcrum: the stall path records
\* the tick's start (monitor_controller.py line 342), restart_fulcrum_manual
\* (lines 160-167) assigns nothing
RecoveryTimeAfter(caller, now) ==
    IF caller = "stall" THEN now ELSE last_recovery_time

\* ------------------------------------------------------- the rate tracker

Min(a, b) == IF a <= b THEN a ELSE b

\* speed_tracker.py line 25: samples[-window:]
Trim(s, w) ==
    IF w > 0 THEN SubSeq(s, Max(Len(s) - w, 0) + 1, Len(s))
    ELSE IF w = 0 THEN s
    ELSE SubSeq(s, Min(-w, Len(s)) + 1, Len(s))

SampleAccepted_AnyDelta(dh, dt) ==
    dt > 0

\* speed_tracker.py line 21: the rate is kept
SampleAccepted(dh, dt) ==
    dt > 0 /\ dh >= 0

Update_KeepOnReject(height, now) ==
    LET measured == last_height # None /\ height # None
        dh == height - last_height
        dt == IF last_time # None THEN now - last_time ELSE 0
        appended == measured /\ SampleAccepted(dh, dt)
        grown == Append(samples, <<dh, dt>>)
    IN  [ samples |-> IF ~appended THEN samples
                      ELSE IF Len(grown) > window THEN Trim(grown, window)
                      ELSE grown,
          last_height |-> IF appended THEN height ELSE last_height,
          last_time |-> IF appended THEN now ELSE last_time,
          appended |-> appended,
          sample |-> <<dh, dt>> ]

\* SpeedTracker.update (lines 16-27) called with height at time now: the new
\* field values
Update(height, now) ==
    LET measured == last_height # None /\ height # None
        dh == height - last_height
        dt == IF last_time # None THEN now - last_time ELSE 0
        appended == measured /\ SampleAccepted(dh, dt)
        grown == Append(samples, <<dh, dt>>)
    IN  [ samples |-> IF ~appended THEN samples
                      ELSE IF Len(grown) > window THEN Trim(grown, window)
                      ELSE grown,
          last_height |-> height,
          last_time |-> now,
          appended |-> appended,
          sample |-> <<dh, dt>> ]

\* ------------------------------------------- binary64 (Python float) values
\* A float is m * 2^e with m a natural number kept as a sequence of limbs,
\* least significant first; every operation computes the exact result and
\* rounds it to 53 significant bits, ties to even, as IEEE 754 does.  Only
\* values >= 0 inside the normal range occur.

LimbBits == 14
LimbBase == 2^LimbBits
MantissaBits == 53

RECURSIVE BigTrim(_)
BigTrim(a) ==
    IF a = <<>> THEN <<>>
    ELSE IF a[Len(a)] = 0 THEN BigTrim(SubSeq(a, 1, Len(a) - 1))
    ELSE a

RECURSIVE BigFromInt(_)
BigFromInt(n) ==
    IF n = 0 THEN <<>>
    ELSE <<n % LimbBase>> \o BigFromInt(n \div LimbBase)

RECURSIVE BigAddC(_, _, _)
BigAddC(a, b, c) ==
    IF a = <<>> /\ b = <<>> THEN (IF c = 0 THEN <<>> ELSE <<c>>)
    ELSE LET x == IF a = <<>> THEN 0 ELSE Head(a)
             y == IF b = <<>> THEN 0 ELSE Head(b)
             sum == x + y + c
         IN  <<sum % LimbBase>>
             \o BigAddC(IF a = <<>> THEN <<>> ELSE Tail(a),
                        IF b = <<>> THEN <<>> ELSE Tail(b),
                        sum \div LimbBase)

BigAdd(a, b) == BigAddC(a, b, 0)

\* a - b for a >= b
RECURSIVE BigSubB(_, _, _)
BigSubB(a, b, borrow) ==
    IF a = <<>> THEN <<>>
    ELSE LET y == IF b = <<>> THEN 0 ELSE Head(b)
             d == Head(a) - y - borrow
         IN  <<IF d < 0 THEN d + LimbBase ELSE d>>
             \o BigSubB(Tail(a), IF b = <<>> THEN <<>> ELSE Tail(b),
                        IF d < 0 THEN 1 ELSE 0)

BigSub(a, b) == BigTrim(BigSubB(a, b, 0))

RECURSIVE BigMulSmallC(_, _, _)
BigMulSmallC(a, k, c) ==
    IF a = <<>> THEN (IF c = 0 THEN <<>> ELSE <<c>>)
    ELSE LET prod == Head(a) * k + c
         IN  <<prod % LimbBase>> \o BigMulSmallC(Tail(a), k, prod \div LimbBase)

\* a * k for 0 <= k <= LimbBase
BigMulSmall(a, k) == IF k = 0 THEN <<>> ELSE BigMulSmallC(a, k, 0)

BigShiftLimb(a) == IF a = <<>> THEN <<>> ELSE <<0>> \o a

RECURSIVE BigMul(_, _)
BigMul(a, b) ==
    IF b = <<>> THEN <<>>
    ELSE BigAdd(BigMulSmall(a, Head(b)), BigShiftLimb(BigMul(a, Tail(b))))

\* a * 2^k
RECURSIVE BigShl(_, _)
BigShl(a, k) ==
    IF k >= LimbBits THEN BigShiftLimb(BigShl(a, k - LimbBits))
    ELSE BigMulSmall(a, 2^k)

\* long division by a small divisor d (d * LimbBase fits an int), from the
\* most significant limb down
RECURSIVE BigDivStep(_, _, _, _)
BigDivStep(a, d, i, r) ==
    IF i > Len(a) THEN [q |-> <<>>, r |-> r]
    ELSE LET cur == r * LimbBase + a[Len(a) + 1 - i]
             rest == BigDivStep(a, d, i + 1, cur % d)
         IN  [q |-> Append(rest.q, cur \div d), r |-> rest.r]

BigDivSmall(a, d) ==
    LET res == BigDivStep(a, d, 1, 0)
    IN  [q |-> BigTrim(res.q), r |-> res.r]

\* floor(a / 2^k)
BigShr(a, k) ==
    LET drop == k \div LimbBits
        rest == IF drop >= Len(a) THEN <<>> ELSE SubSeq(a, drop + 1, Len(a))
    IN  BigDivSmall(rest, 2^(k % LimbBits)).q

RECURSIVE BitLenSmall(_)
BitLenSmall(n) == IF n = 0 THEN 0 ELSE 1 + BitLenSmall(n \div 2)

BigBitLen(a) ==
    IF a = <<>> THEN 0 ELSE LimbBits * (Len(a) - 1) + BitLenSmall(a[Len(a)])

\* bit i of a, bit 0 the least significant
BigBit(a, i) ==
    LET k == i \div LimbBits + 1
    IN  IF k > Len(a) THEN 0 ELSE (a[k] \div 2^(i % LimbBits)) % 2

\* some bit of a below bit i is set
BigSticky(a, i) ==
    \E k \in DOMAIN a :
        \/ k < i \div LimbBits + 1 /\ a[k] # 0
        \/ k = i \div LimbBits + 1 /\ a[k] % 2^(i % LimbBits) # 0

\* a < b, both without leading zero limbs
RECURSIVE BigLess(_, _)
BigLess(a, b) ==
    IF Len(a) # Len(b) THEN Len(a) < Len(b)
    ELSE IF a = <<>> THEN FALSE
    ELSE IF a[Len(a)] # b[Len(b)] THEN a[Len(a)] < b[Len(b)]
    ELSE BigLess(BigTrim(SubSeq(a, 1, Len(a) - 1)), BigTrim(SubSeq(b, 1, Len(b) - 1)))

\* the exact value n * 2^e rounded to the nearest float, ties to even
FloatRound(n, e) ==
    LET excess == BigBitLen(n) - MantissaBits
    IN  IF excess <= 0 THEN [m |-> n, e |-> e]
        ELSE LET q == BigShr(n, excess)
                 up == /\ BigBit(n, excess - 1) = 1
                       /\ (BigSticky(n, excess - 1) \/ BigBit(q, 0) = 1)
             IN  [m |-> IF up THEN BigAdd(q, <<1>>) ELSE q, e |-> e + excess]

FloatMul(x, y) == FloatRound(BigMul(x.m, y.m), x.e + y.e)

FloatAdd(x, y) ==
    LET e == Min(x.e, y.e)
    IN  FloatRound(BigAdd(BigShl(x.m, x.e - e), BigShl(y.m, y.e - e)), e)

\* x - y for x >= y
FloatSub(x, y) ==
    LET e == Min(x.e, y.e)
    IN  FloatRound(BigSub(BigShl(x.m, x.e - e), BigShl(y.m, y.e - e)), e)

FloatLess(x, y) ==
    LET e == Min(x.e, y.e)
    IN  BigLess(BigShl(x.m, x.e - e), BigShl(y.m, y.e - e))

FloatEq(x, y) == ~FloatLess(x, y) /\ ~FloatLess(y, x)

\* how far below the binary point a quotient is taken before it is rounded
QuotientBits == 70

\* a / b for whole numbers a >= 0 and b > 0 (b * LimbBase fits an int): the
\* quotient to QuotientBits places, a last bit recording a remainder
FloatDiv(a, b) ==
    LET res == BigDivSmall(BigShl(BigFromInt(a), QuotientBits), b)
    IN  FloatRound(BigAdd(BigShl(res.q, 1), IF res.r # 0 THEN <<1>> ELSE <<>>),
                   0 - QuotientBits - 1)

FloatOf(n) == [m |-> BigFromInt(n), e |-> 0]

\* the time scale of the model: min_recovery_interval, 600 s in the source,
\* is 3 units
SecondsPerUnit == 200

\* speed_tracker.py line 22: speed = dh / dt, for a sample kept as <<dh, dt>>
\* with dt in units of time
Rate(sample) == FloatDiv(sample[1], sample[2] * SecondsPerUnit)

\* line 35: alpha = 0.2
alpha == FloatDiv(1, 5)

\* lines 37-38: ema = alpha * s + (1 - alpha) * ema over samples[1:]
RECURSIVE EmaFrom(_, _, _)
EmaFrom(s, i, ema) ==
    IF i > Len(s) THEN ema
    ELSE EmaFrom(s, i + 1,
                 FloatAdd(FloatMul(alpha, Rate(s[i])),
                          FloatMul(FloatSub(FloatOf(1), alpha), ema)))

\* SpeedTracker.get_stats (lines 29-40) on the samples s: none stands for the
\* result (None, None); of the pair (ema, stdev) the ema is computed
GetStats(s) ==
    IF s = <<>> THEN [none |-> TRUE, ema |-> FloatOf(0)]
    ELSE [none |-> FALSE, ema |-> EmaFrom(s, 2, Rate(s[1]))]

When(cond, records) == IF cond THEN records ELSE <<>>

\* lines 353, 359, 365: a metric was read and is above its threshold
MetricHigh(value, threshold) ==
    value # None /\ value > threshold

NoEvent ==
    [ ticked |-> FALSE, btc |-> None, ful |-> None,
      changed |-> FALSE, was_notified |-> FALSE, stall_alert |-> FALSE,
      probe |-> FALSE, test_height |-> None, rpc_latency |-> None,
      recovery |-> "none", restart |-> FALSE, restart_ok |-> FALSE,
      prev_recovery_time |-> None, log_lost |-> FALSE ]

NoDatumEvent ==
    [ ticked |-> FALSE, now |-> None, active |-> TRUE, job_read |-> FALSE,
      inactive_alert |-> FALSE, zero_detected |-> FALSE, zero_alert |-> FALSE,
      nojob_detected |-> FALSE, nojob_alert |-> FALSE, log_lost |-> FALSE ]

NoMetricEvent ==
    [ ticked |-> FALSE, at |-> None, cpu_alert |-> FALSE, ram_alert |-> FALSE,
      temp_alert |-> FALSE, log_lost |-> FALSE ]

NoBitaxeEvent ==
    [ ticked |-> FALSE, ts |-> None, ok |-> FALSE, raised |-> FALSE,
      fallback_detected |-> FALSE, fallback_alert |-> FALSE,
      notprog_detected |-> FALSE, notprog_alert |-> FALSE,
      unreachable_detected |-> FALSE, unreachable_alert |-> FALSE,
      log_lost |-> FALSE,
      not_mining |-> FALSE, progress |-> FALSE, fetched_shares |-> None ]

NoSnapshot == [ok |-> FALSE, shares_accepted |-> None, seen |-> FALSE]

NoSpeedEvent ==
    [ updated |-> FALSE, height |-> None, prev_height |-> None, prev_len |-> 0,
      appended |-> FALSE, calls |-> 0, rates |-> <<>> ]

\* ---------------------------------------------------------- the ETA model
\* eta_model.py.  Times are in seconds.  A sample is [t, fulcrum_height, lag];
\* quotients are exact fractions [n, d] in lowest terms with d > 0, and
\* numpy.polyfit of degree 1 is the least-squares line.

RECURSIVE Gcd(_, _)
Gcd(a, b) == IF b = 0 THEN a ELSE Gcd(b, a % b)

Abs(x) == IF x < 0 THEN 0 - x ELSE x

Fraction(n, d) ==
    LET g == Gcd(Abs(n), Abs(d))
    IN  IF d < 0 THEN [n |-> (0 - n) \div g, d |-> (0 - d) \div g]
        ELSE [n |-> n \div g, d |-> d \div g]

FractionLeq(x, y) == x.n * y.d <= y.n * x.d

Progress_NonStrict(s, last) ==
    s.fulcrum_height >= last.fulcrum_height \/ s.lag <= last.lag

\* lines 127-130: the sample is kept
Progress(s, last) ==
    s.fulcrum_height > last.fulcrum_height \/ s.lag < last.lag

\* _monotonic_progress (lines 102-133), scanning from sample i on with the
\* positions kept so far; the result lists the positions of the samples kept
RECURSIVE MonotonicFrom(_, _, _)
MonotonicFrom(log, i, kept) ==
    IF i > Len(log) THEN kept
    ELSE IF kept = <<>> THEN MonotonicFrom(log, i + 1, <<i>>)
    ELSE IF Progress(log[i], log[kept[Len(kept)]])
         THEN MonotonicFrom(log, i + 1, Append(kept, i))
         ELSE MonotonicFrom(log, i + 1, kept)

MonotonicProgress(log) == MonotonicFrom(log, 1, <<>>)

RECURSIVE SumOver(_, _)
SumOver(f, k) == IF k = 0 THEN 0 ELSE f[k] + SumOver(f, k - 1)

min_points == 5

EnoughPoints_Four(count) ==
    count >= min_points - 1

\* lines 149-150 and 338: enough samples for a regression
EnoughPoints(count) ==
    count >= min_points

SlopeUsable_NonNegative(slope) ==
    slope.n >= 0

\* line 164: the fitted speed is accepted
SlopeUsable(slope) ==
    slope.n > 0

\* _fit_regression (lines 136-167) on the samples r: the error it raises, or
\* the slope a of the least-squares line
FitRegression(r) ==
    LET n == Len(r)
        times_sec == [i \in 1..n |-> r[i].t - r[1].t]
        heights == [i \in 1..n |-> r[i].fulcrum_height]
        span == IF n = 0 THEN 0
                ELSE (CHOOSE x \in {times_sec[i] : i \in 1..n} :
                          \A i \in 1..n : times_sec[i] <= x)
                     - (CHOOSE x \in {times_sec[i] : i \in 1..n} :
                          \A i \in 1..n : times_sec[i] >= x)
        st == SumOver(times_sec, n)
        sh == SumOver(heights, n)
        sth == SumOver([i \in 1..n |-> times_sec[i] * heights[i]], n)
        stt == SumOver([i \in 1..n |-> times_sec[i] * times_sec[i]], n)
        a == Fraction(n * sth - st * sh, n * stt - st * st)
    IN  IF ~EnoughPoints(n) THEN [ok |-> FALSE, err |-> "not enough progress points"]
        ELSE IF span <= 0 THEN [ok |-> FALSE, err |-> "time span of samples is zero"]
        ELSE IF ~SlopeUsable(a)
             THEN [ok |-> FALSE, err |-> "regression speed non-positive", a |-> a]
        ELSE [ok |-> TRUE, err |-> "", a |-> a]

\* lines 197-198: the speed 20% faster and 20% slower
BandSpeeds(speed) ==
    [ fast |-> Fraction(speed.n * 6, speed.d * 5),
      slow |-> Fraction(speed.n * 4, speed.d * 5) ]

FormatEtaSummary_FirstLag(r, speed) ==
    LET lag_blocks == r[1].lag
        band == BandSpeeds(speed)
    IN  IF lag_blocks <= 0 THEN [ok |-> FALSE, err |-> "lag is non-positive"]
        ELSE [ ok |-> TRUE, err |-> "", lag_blocks |-> lag_blocks,
               eta_seconds |-> Fraction(lag_blocks * speed.d, speed.n),
               fast_speed |-> band.fast,
               slow_speed |-> band.slow,
               eta_fast_seconds |-> Fraction(lag_blocks * band.fast.d, band.fast.n),
               eta_slow_seconds |-> Fraction(lag_blocks * band.slow.d, band.slow.n) ]

\* _format_eta_summary (lines 170-229): the error it raises, or the ETAs in
\* seconds with the speeds they divide by
FormatEtaSummary(r, speed) ==
    LET lag_blocks == r[Len(r)].lag
        band == BandSpeeds(speed)
    IN  IF lag_blocks <= 0 THEN [ok |-> FALSE, err |-> "lag is non-positive"]
        ELSE [ ok |-> TRUE, err |-> "", lag_blocks |-> lag_blocks,
               eta_seconds |-> Fraction(lag_blocks * speed.d, speed.n),
               fast_speed |-> band.fast,
               slow_speed |-> band.slow,
               eta_fast_seconds |-> Fraction(lag_blocks * band.fast.d, band.fast.n),
               eta_slow_seconds |-> Fraction(lag_blocks * band.slow.d, band.slow.n) ]

NoFraction == [n |-> 0, d |-> 1]

NoEta ==
    [ called |-> FALSE, raised |-> FALSE, text |-> "", charts |-> FALSE,
      has_eta |-> FALSE, kept |-> <<>>,
      speed |-> NoFraction, fast_speed |-> NoFraction, slow_speed |-> NoFraction,
      eta_seconds |-> NoFraction, eta_fast_seconds |-> NoFraction,
      eta_slow_seconds |-> NoFraction ]

EtaError(text, kept) ==
    [NoEta EXCEPT !.called = TRUE, !.text = text, !.kept = kept]

\* compute_eta_and_charts (lines 318-396) on the parsed log, with numpy
\* installed or not and chart drawing succeeding or not
ComputeEtaAndCharts(log, numpy_installed, charts_ok) ==
    LET kept == MonotonicProgress(log)
        r == [k \in 1..Len(kept) |-> log[kept[k]]]
        fit == FitRegression(r)
        eta == FormatEtaSummary(r, fit.a)
    IN  IF log = <<>> THEN EtaError("No Heights data found", kept)
        ELSE IF ~EnoughPoints(Len(kept)) THEN EtaError("Not enough progress points", kept)
        ELSE IF ~numpy_installed THEN EtaError("numpy is not installed", kept)
        ELSE IF ~fit.ok THEN EtaError("Could not fit regression-based ETA: " \o fit.err, kept)
        ELSE IF ~eta.ok THEN EtaError("Could not compute ETA: " \o eta.err, kept)
        ELSE [ called |-> TRUE, raised |-> FALSE,
               text |-> IF charts_ok THEN "summary"
                        ELSE "summary (Chart generation failed)",
               charts |-> charts_ok, has_eta |-> TRUE, kept |-> kept,
               speed |-> fit.a, fast_speed |-> eta.fast_speed,
               slow_speed |-> eta.slow_speed,
               eta_seconds |-> eta.eta_seconds,
               eta_fast_seconds |-> eta.eta_fast_seconds,
               eta_slow_seconds |-> eta.eta_slow_seconds ]

\* ------------------------------------------------ the speed report window
\* speed_history.py.  A sample is [speed, lag] as load_samples_since_restart
\* reads a "Heights:" line: the speed in thousandths of a block per second
\* (the log carries three decimals), None when the line has no number after
\* "speed~="; the lag in blocks, None when the line has no number after
\* "lag=".  statistics.pstdev is the square root of a whole number over the
\* count, so a value is kept exactly as (a + b * sqrt(v)) / d with d > 0.

Surd(a, b, v, d) ==
    LET g == Gcd(Gcd(Abs(a), Abs(b)), Abs(d))
    IN  IF d < 0
        THEN [a |-> (0 - a) \div g, b |-> (0 - b) \div g, v |-> v, d |-> (0 - d) \div g]
        ELSE [a |-> a \div g, b |-> b \div g, v |-> v, d |-> d \div g]

\* p + q * sqrt(v) <= 0
SurdNonPositive(p, q, v) ==
    \/ p <= 0 /\ q <= 0
    \/ p <= 0 /\ q > 0 /\ q * q * v <= p * p
    \/ p > 0 /\ q < 0 /\ p * p <= q * q * v

\* x <= y for two values over the same square root
SurdLeq(x, y) ==
    LET p == x.a * y.d - y.a * x.d
        q == x.b * y.d - y.b * x.d
        g == Gcd(Abs(p), Abs(q))
    IN  g = 0 \/ SurdNonPositive(p \div g, q \div g, x.v)

SurdPositive(x) == ~SurdNonPositive(x.a, x.b, x.v)

\* num / x / den for a value x > 0
SurdQuotient(num, x, den) ==
    Surd(num * x.d * x.a, 0 - num * x.d * x.b, x.v,
         den * (x.a * x.a - x.b * x.b * x.v))

NoSurd == [a |-> 0, b |-> 0, v |-> 0, d |-> 1]

NoWindow ==
    [ called |-> FALSE, text |-> "", has_window |-> FALSE, clamped |-> FALSE,
      count |-> 0, lag_blocks |-> 0,
      avg_speed |-> NoSurd, hi_speed |-> NoSurd, lo_speed |-> NoSurd,
      central_h |-> NoSurd, low_h |-> NoSurd, high_h |-> NoSurd ]

WindowSpeeds_Unordered(avg_speed, stdev_speed) ==
    [ hi |-> Surd(avg_speed.a, 0 - stdev_speed.b, avg_speed.v, avg_speed.d),
      lo |-> Surd(avg_speed.a, stdev_speed.b, avg_speed.v, avg_speed.d),
      clamped |-> FALSE ]

\* lines 143-144: hi_speed = avg + stdev, lo_speed = max(avg - stdev,
\* avg * 0.25), for values over the same d
WindowSpeeds(avg_speed, stdev_speed) ==
    LET below == Surd(avg_speed.a, 0 - stdev_speed.b, avg_speed.v, avg_speed.d)
        quarter == Surd(avg_speed.a, 0, avg_speed.v, 4 * avg_speed.d)
    IN  [ hi |-> Surd(avg_speed.a, stdev_speed.b, avg_speed.v, avg_speed.d),
          lo |-> IF SurdLeq(quarter, below) THEN below ELSE quarter,
          clamped |-> ~SurdLeq(quarter, below) ]

\* _compute_eta_window (lines 106-165) on the samples of this Fulcrum run
ComputeEtaWindow(run) ==
    LET with_speed == SelectSeq(run, LAMBDA s : s.speed # None)
        count == Len(with_speed)
        speeds == [k \in 1..count |-> with_speed[k].speed]
        last_lag == run[Len(run)].lag
        lag_blocks == IF last_lag = None THEN 0 ELSE last_lag
        total == SumOver(speeds, count)
        squares == SumOver([k \in 1..count |-> speeds[k] * speeds[k]], count)
        spread == count * squares - total * total
        \* mean and pstdev over the same denominator, not reduced
        avg_speed == [a |-> total, b |-> 0, v |-> spread, d |-> count]
        stdev_speed == [a |-> 0, b |-> IF count > 1 THEN 1 ELSE 0,
                        v |-> spread, d |-> count]
        band == WindowSpeeds(avg_speed, stdev_speed)
        \* speeds are thousandths of a block per second, ETAs are hours
        central_h == SurdQuotient(lag_blocks * 1000, avg_speed, 3600)
        usable == /\ SurdPositive(stdev_speed)
                  /\ ~SurdLeq(avg_speed, stdev_speed)
    IN  IF count = 0
        THEN [NoWindow EXCEPT !.called = TRUE, !.text = "No valid speed samples yet"]
        ELSE IF ~SurdPositive(avg_speed) \/ lag_blocks <= 0
        THEN [NoWindow EXCEPT !.called = TRUE, !.text = "ETA cannot be derived",
                              !.count = count, !.lag_blocks = lag_blocks,
                              !.avg_speed = avg_speed]
        ELSE [ called |-> TRUE, text |-> "Central ETA and window",
               has_window |-> TRUE, clamped |-> usable /\ band.clamped,
               count |-> count, lag_blocks |-> lag_blocks,
               avg_speed |-> avg_speed,
               hi_speed |-> IF usable THEN band.hi ELSE avg_speed,
               lo_speed |-> IF usable THEN band.lo ELSE avg_speed,
               central_h |-> central_h,
               low_h |-> IF usable
                         THEN SurdQuotient(lag_blocks * 1000, band.hi, 3600)
                         ELSE central_h,
               high_h |-> IF usable
                          THEN SurdQuotient(lag_blocks * 1000, band.lo, 3600)
                          ELSE central_h ]

\* --------------------------------------------- the Telegram command handler
\* telegram_service.py.  An update is [kind, chat_id, text]: kind names the
\* key that carries the message, chat_id is str(chat.get("id", "")), ""
\* when the message names no chat, and text is the message text split at
\* white space, each token [slash, word] with slash saying that the token
\* starts with "/".  A text sent is [method, text, shortcuts].

\* MonitorController.__init__ (monitor_controller.py lines 134-153): the chat
\* the service is constructed for, never empty, and the callbacks it is given
chat_id == "123"

callbacks ==
    { "status_text", "restart_fulcrum", "restart_bitcoind", "check_rpc",
      "datum_status", "investigate_datum", "mining_status" }

\* lines 64-73
ALIASES ==
    [ c \in {"/h", "/ns", "/ms", "/ds", "/id", "/rpc", "/rf", "/rb"} |->
        CASE c = "/h" -> "/help"
          [] c = "/ns" -> "/status"
          [] c = "/ms" -> "/mining"
          [] c = "/ds" -> "/datum"
          [] c = "/id" -> "/investigate_datum"
          [] c = "/rpc" -> "/check_rpc"
          [] c = "/rf" -> "/restart_fulcrum"
          [] c = "/rb" -> "/restart_bitcoind" ]

\* lines 75-85
SHORTCUTS ==
    [ c \in { "/start", "/help", "/status", "/mining", "/datum",
              "/investigate_datum", "/check_rpc", "/restart_fulcrum",
              "/restart_bitcoind" } |->
        CASE c \in {"/start", "/help"} -> <<"/status", "/mining", "/datum">>
          [] c = "/status" -> <<"/mining", "/datum">>
          [] c = "/datum" -> <<"/investigate_datum">>
          [] c = "/investigate_datum" -> <<"/status", "/mining">>
          [] OTHER -> <<"/status">> ]

Alias_Identity(t) ==
    t

\* self._ALIASES.get(t, t)
Alias(t) == IF t \in DOMAIN ALIASES THEN ALIASES[t] ELSE t

\* lines 255-260: the list without its repetitions, first occurrences kept
RECURSIVE Unique(_, _)
Unique(list, out) ==
    IF list = <<>> THEN out
    ELSE IF \E k \in DOMAIN out : out[k] = Head(list)
         THEN Unique(Tail(list), out)
         ELSE Unique(Tail(list), Append(out, Head(list)))

\* _shortcuts_for (lines 242-261)
ShortcutsFor(cmd) ==
    LET known == Alias(cmd)
        shortcuts == IF cmd = "" THEN <<"/help", "/status">>
                     ELSE IF known \in DOMAIN SHORTCUTS THEN SHORTCUTS[known]
                     ELSE <<"/help", "/status">>
        with_help == IF \E k \in DOMAIN shortcuts : shortcuts[k] = "/help"
                     THEN shortcuts ELSE Append(shortcuts, "/help")
    IN  Unique(with_help, <<>>)

\* _with_shortcuts (lines 263-269) and the client's send_text: the message
\* sent, its "Shortcuts:" line kept as the list it prints
SendWithShortcuts(text, cmd) ==
    << [method |-> "send_text", text |-> text, shortcuts |-> ShortcutsFor(cmd)] >>

\* the callback each command runs (lines 199-220), "" for /start and /help
CallbackOf ==
    [ c \in DOMAIN SHORTCUTS |->
        CASE c \in {"/start", "/help"} -> ""
          [] c = "/status" -> "status_text"
          [] c = "/check_rpc" -> "check_rpc"
          [] c = "/restart_fulcrum" -> "restart_fulcrum"
          [] c = "/restart_bitcoind" -> "restart_bitcoind"
          [] c = "/datum" -> "datum_status"
          [] c = "/investigate_datum" -> "investigate_datum"
          [] c = "/mining" -> "mining_status" ]

Investigate_TextFirst(out, cmd) ==
    SendWithShortcuts(out, cmd)
    \o << [method |-> "send_chat_action", text |-> "typing", shortcuts |-> <<>>] >>

\* _investigate with its callback configured (lines 188-197): the calls to
\* the client, the callback having returned out
Investigate(out, cmd) ==
    << [method |-> "send_chat_action", text |-> "typing", shortcuts |-> <<>>] >>
    \o SendWithShortcuts(out, cmd)

NoReply == [handled |-> FALSE, cmd |-> "", invoked |-> <<>>, calls |-> <<>>]

\* lines 155-157: the update is not from another chat
AcceptChat(id) ==
    ~(id # "" /\ id # chat_id)

\* _handle_update (lines 148-227) for an update whose callback, if one runs,
\* returns the text out ("" when it returns nothing)
HandleUpdate(upd, out) ==
    LET t == IF upd.text[1].slash THEN "/" \o upd.text[1].word
             ELSE upd.text[1].word
        cmd == Alias(t)
        cb == CallbackOf[cmd]
        configured == cb \in callbacks
        missing == cb \o " callback not configured."
        reply == [NoReply EXCEPT !.handled = TRUE, !.cmd = cmd]
    IN  IF upd.kind \notin {"message", "edited_message"} THEN NoReply
        ELSE IF ~AcceptChat(upd.chat_id) THEN NoReply
        ELSE IF upd.text = <<>> \/ ~upd.text[1].slash THEN NoReply
        ELSE IF cmd \notin DOMAIN CallbackOf
        THEN [reply EXCEPT !.calls = SendWithShortcuts("Unknown command. Send /help for available commands.", cmd)]
        ELSE IF cb = ""
        THEN [reply EXCEPT !.calls = SendWithShortcuts("Bitnode Monitor Commands", cmd)]
        ELSE IF ~configured
        THEN [reply EXCEPT !.calls = SendWithShortcuts(missing, cmd)]
        ELSE IF cmd = "/restart_fulcrum"
        THEN [reply EXCEPT !.invoked = <<cb>>,
                           !.calls = SendWithShortcuts(
                               IF out # "" THEN out ELSE "Requested Fulcrum restart.", cmd)]
        ELSE IF cmd = "/restart_bitcoind"
        THEN [reply EXCEPT !.invoked = <<cb>>,
                           !.calls = SendWithShortcuts(
                               IF out # "" THEN out ELSE "Requested bitcoind restart.", cmd)]
        ELSE IF cmd = "/investigate_datum"
        THEN [reply EXCEPT !.invoked = <<cb>>, !.calls = Investigate(out, cmd)]
        ELSE [reply EXCEPT !.invoked = <<cb>>,
                           !.calls = SendWithShortcuts(out, cmd)]

NoUpdate == [update_id |-> 0, kind |-> "", chat_id |-> "", text |-> <<>>]

\* lines 121-124: the update id the next getUpdates answer starts at
NextUpdateId == IF tg_offset = None THEN 1 ELSE tg_offset

\* ------------------------------------------------- the control endpoint

\* bitnode_control.py line 15
ALLOWED_MODES == {"direct", "relay", "auto"}

\* line 47: the restart rate limit, 60 s; the control clock counts minutes
min_interval_sec == 1

\* one line of local.env: KEY=text, or KEY=num for a timestamp; the blank
\* line has the empty key
EnvLine(key, text, num) == [key |-> key, text |-> text, num |-> num]
BlankLine == EnvLine("", "", None)

\* lines 30-45: replace every KEY= line, or append one after a blank line
\* when the file does not end in one
SetEnvKv(lines, key, text, num) ==
    LET found == \E k \in 1..Len(lines) : lines[k].key = key
        replaced == [k \in 1..Len(lines) |->
                        IF lines[k].key = key THEN EnvLine(key, text, num)
                        ELSE lines[k]]
        spaced == IF lines # <<>> /\ lines[Len(lines)] # BlankLine
                  THEN Append(lines, BlankLine) ELSE lines
    IN  IF found THEN replaced ELSE Append(spaced, EnvLine(key, text, num))

\* local.env as deployed, and before the first deployment
DeployedEnv == << EnvLine("FULCRUM_SERVICE", "fulcrum", None),
                  EnvLine("TELEGRAM_MODE", "auto", None) >>
Envs == {<<>>, DeployedEnv}

\* lines 19-23: the token file's content, "" when it is empty or unreadable
TokenFiles == {"", "s3cret"}
\* the X-Control-Token header, "" when it is absent
TokenHeaders == {"", "s3cret", "guess"}

\* lines 25-28
Authorized(want, got) ==
    want # "" /\ got = want

\* line 84: str(data.get("mode", "")).strip().lower()
ModeOf(raw) ==
    CASE raw = " Relay " -> "relay"
      [] raw = "AUTO" -> "auto"
      [] OTHER -> raw

\* line 85: int(data.get("ttl_sec", 0) or 0) raises ValueError on a string
\* that is no number
TtlRaises(ttl) == ttl = "soon"
TtlSec(ttl) == IF ttl = "60" THEN 1 ELSE 0

\* request bodies: bytes that are no JSON, a JSON array, and JSON objects
\* with or without "mode" and "ttl_sec" (an absent Content-Length is {})
RawModes == {"", "direct", " Relay ", "bogus"}
Ttls == {"absent", "60", "soon"}
Bodies ==
    {[json |-> "invalid", mode |-> "", ttl |-> "absent"],
     [json |-> "array", mode |-> "", ttl |-> "absent"]}
    \cup [json : {"object"}, mode : RawModes, ttl : Ttls]
Paths == {"/mode", "/health"}

NoPost ==
    [ posted |-> FALSE, authorized |-> FALSE, path |-> "", json |-> "",
      mode |-> "", ttl |-> "", code |-> None, error |-> "", restart |-> "" ]

\* lines 70-103: the status code (None when the handler raised and the
\* connection is closed without an answer), the error named in the answer,
\* the new local.env, and what became of the restart
DoPost(want, got, path, body, now, restart_ok) ==
    LET mode == ModeOf(body.mode)
        env1 == SetEnvKv(ctl_env, "TELEGRAM_MODE", mode, None)
        env2 == SetEnvKv(env1, "TELEGRAM_MODE_EXPIRES_AT", "",
                         IF TtlSec(body.ttl) > 0 THEN now + TtlSec(body.ttl)
                         ELSE None)
        limited == now - ctl_last_restart_ts < min_interval_sec
        kept == [env |-> ctl_env, last_restart_ts |-> ctl_last_restart_ts]
    IN  IF ~Authorized(want, got)
        THEN kept @@ [code |-> 403, error |-> "forbidden", restart |-> ""]
        ELSE IF path # "/mode"
        THEN kept @@ [code |-> 404, error |-> "not_found", restart |-> ""]
        ELSE IF body.json = "invalid"
        THEN kept @@ [code |-> 400, error |-> "bad_json", restart |-> ""]
        ELSE IF body.json # "object"
        THEN kept @@ [code |-> None, error |-> "AttributeError", restart |-> ""]
        ELSE IF TtlRaises(body.ttl)
        THEN kept @@ [code |-> None, error |-> "ValueError", restart |-> ""]
        ELSE IF mode \notin ALLOWED_MODES
        THEN kept @@ [code |-> 400, error |-> "bad_mode", restart |-> ""]
        ELSE IF limited
        THEN [env |-> env2, last_restart_ts |-> ctl_last_restart_ts,
              code |-> 200, error |-> "", restart |-> "restart_skipped"]
        ELSE IF ~restart_ok
        THEN [env |-> env2, last_restart_ts |-> ctl_last_restart_ts,
              code |-> None, error |-> "CalledProcessError",
              restart |-> "restart_failed"]
        ELSE [env |-> env2, last_restart_ts |-> now,
              code |-> 200, error |-> "", restart |-> "restart_ok"]

\* Handler.do_POST, one request: some time after the previous one
ControlPost(token_files, headers, paths, bodies) ==
    /\ ctl_requests < MaxRequests
    /\ \E want \in token_files, got \in headers, path \in paths,
          body \in bodies, dt \in 0..min_interval_sec, restart_ok \in BOOLEAN :
        LET now == ctl_now + dt
            r == DoPost(want, got, path, body, now, restart_ok)
        IN  /\ (r.restart \in {"restart_ok", "restart_failed"} \/ restart_ok)
            /\ ctl_now' = now
            /\ ctl_env' = r.env
            /\ ctl_last_restart_ts' = r.last_restart_ts
            /\ cev' = [ posted |-> TRUE, authorized |-> Authorized(want, got),
                        path |-> path, json |-> body.json,
                        mode |-> ModeOf(body.mode), ttl |-> body.ttl,
                        code |-> r.code, error |-> r.error,
                        restart |-> r.restart ]
    /\ ctl_requests' = ctl_requests + 1
    /\ UNCHANGED <<eta_vars, update_vars, clock, pc, loop_start, config_vars,
                   main_vars, datum_vars, main_obs, bitaxe_vars, speed_vars,
                   tg_audit, fulcrum_restarted_at>>

\* ------------------------------------------------------------ main loop

\* MonitorController.__init__ (lines 123-130), DatumMonitor.__init__ and
\* BitaxeChecker.__init__: the state before the first tick
InitOn(windows, disks, envs) ==
    /\ clock = StartTime
    /\ pc = "heights"
    /\ loop_start = None
    /\ enable_auto_restart \in BOOLEAN
    /\ telegram_enabled \in BOOLEAN
    /\ log_writable \in disks
    /\ last_height_change_time = None
    /\ last_fulcrum_height = None
    /\ last_logged_height = None
    /\ stall_notified = FALSE
    /\ last_recovery_time = 0
    /\ datum_last_alert_ts = 0
    /\ datum_last_zero_client_alert_ts = 0
    /\ datum_last_job_ts = None
    /\ datum_last_job_info = NoJob
    /\ ev = NoEvent
    /\ dev = NoDatumEvent
    /\ mev = NoMetricEvent
    /\ audit = <<>>
    /\ episode_alerts = 0
    /\ episode_due = FALSE
    /\ bitaxe_last_snapshot = NoSnapshot
    /\ bitaxe_last_accept_change_ts = None
    /\ bitaxe_last_urgent_ts = 0
    /\ bitaxe_last_fallback_ts = 0
    /\ bev = NoBitaxeEvent
    /\ bitaxe_emit = [fallback |-> 0, not_progressing |-> 0, unreachable |-> 0]
    /\ bitaxe_audit = <<>>
    /\ bitaxe_loop = "running"
    /\ window \in windows
    /\ samples = <<>>
    /\ last_height = None
    /\ last_time = None
    /\ sev = NoSpeedEvent
    /\ tg_audit = <<>>
    /\ fulcrum_restarted_at = None
    /\ monitor_log = <<>>
    /\ eta_out = NoEta
    /\ speed_samples = <<>>
    /\ window_out = NoWindow
    /\ tg_offset = None
    /\ tg_update = NoUpdate
    /\ tg_reply = NoReply
    /\ tg_batch = <<>>
    /\ tg_handled = <<>>
    /\ tg_raised = {}
    /\ ctl_env \in envs
    /\ ctl_last_restart_ts = 0
    /\ ctl_now = StartTime
    /\ ctl_requests = 0
    /\ cev = NoPost

\* the process next to a deployed local.env
InitWith(windows, disks) == InitOn(windows, disks, {DeployedEnv})

\* the process as configured (SPEED_WINDOW is speed_window), its log file
\* writable
Init == InitWith({speed_window}, {TRUE})

\* what the readers can return on one tick
HeightReadings == {None} \cup Heights
MetricLevels == {0, 1}
MetricReadings(threshold, levels) == {None} \cup {threshold + l : l \in levels}
JobAges == {0, datum_no_job_sec + 1}
JobReadings(now, ages) ==
    {NoJob} \cup [clients : {0, 1}, timestamp : {now - a : a \in ages}]

\* Lines 267-344: read both heights, feed the rate tracker on a new height,
\* run the stall detector and, on a notified stall, the recovery gate.  The
\* health probe is get_bitcoind_height again, so it answers as that reader
\* can.  A reader that never returns leaves the loop blocked in the call.
ReadHeights(btc_readings, ful_readings) ==
    /\ pc = "heights"
    /\ clock < StartTime + Horizon
    /\ \E btc_height \in btc_readings, ful_height \in ful_readings,
          test_height \in btc_readings, rpc_latency \in 0..MaxLatency,
          restart_ok \in BOOLEAN, tg_up \in BOOLEAN :
        LET hung_read == btc_height = Hang \/ ful_height = Hang
            readable == ~hung_read /\ HeightsReadable(btc_height, ful_height)
            changed == readable /\ HeightChanged(ful_height)
            frozen == readable /\ ~changed
            stall == frozen /\ StallDue(clock)
            gate == StallRecovery(clock, test_height, rpc_latency)
            recovery == IF ~stall THEN "none"
                        ELSE IF gate # "skipped" /\ test_height = Hang THEN "blocked"
                        ELSE gate
            probe == stall /\ recovery # "skipped"
            called == recovery \in {"restarted", "refused"}
            restart == recovery = "restarted"
            frozen_past == /\ frozen
                           /\ last_height_change_time # None
                           /\ clock - last_height_change_time > stall_threshold
            tracked == Update(ful_height, clock)
            logged == \/ ~readable /\ ~hung_read
                      \/ changed /\ ful_height # last_logged_height
                      \/ stall
        IN  /\ (stall \/ (test_height = btc_height /\ rpc_latency = 0))
            /\ (recovery = "blocked" => rpc_latency = 0)
            /\ (btc_height = Hang => ful_height = None)
            /\ (restart \/ restart_ok)
            /\ ((stall /\ telegram_enabled) \/ tg_up)
            /\ loop_start' = clock
            /\ last_fulcrum_height' = IF changed THEN ful_height ELSE last_fulcrum_height
            /\ last_logged_height' = IF changed THEN ful_height ELSE last_logged_height
            /\ last_height_change_time' =
                   IF changed THEN clock ELSE last_height_change_time
            /\ stall_notified' = IF changed THEN FALSE
                                 ELSE IF stall /\ recovery # "blocked" THEN TRUE
                                 ELSE stall_notified
            /\ last_recovery_time' =
                   IF called THEN RecoveryTimeAfter("stall", clock) ELSE last_recovery_time
            /\ fulcrum_restarted_at' =
                   IF restart /\ restart_ok THEN clock + rpc_latency
                   ELSE fulcrum_restarted_at
            /\ samples' = IF changed THEN tracked.samples ELSE samples
            /\ last_height' = IF changed THEN tracked.last_height ELSE last_height
            /\ last_time' = IF changed THEN tracked.last_time ELSE last_time
            /\ sev' = IF changed
                      THEN [ updated |-> TRUE, height |-> ful_height,
                             prev_height |-> last_height, prev_len |-> Len(samples),
                             appended |-> tracked.appended, calls |-> 0,
                             rates |-> <<>> ]
                      ELSE NoSpeedEvent
            /\ episode_alerts' = IF changed THEN 0
                                 ELSE IF stall THEN episode_alerts + 1
                                 ELSE episode_alerts
            /\ episode_due' = IF changed THEN FALSE ELSE (episode_due \/ frozen_past)
            /\ ev' = IF hung_read THEN NoEvent
                     ELSE [ ticked |-> TRUE, btc |-> btc_height, ful |-> ful_height,
                            changed |-> changed, was_notified |-> stall_notified,
                            stall_alert |-> stall, probe |-> probe,
                            test_height |-> IF probe THEN test_height ELSE None,
                            rpc_latency |-> IF probe THEN rpc_latency ELSE None,
                            recovery |-> recovery, restart |-> restart,
                            restart_ok |-> restart /\ restart_ok,
                            prev_recovery_time |-> last_recovery_time,
                            log_lost |-> LogLost(logged) ]
            /\ audit' =
                   When(~readable /\ ~hung_read,
                        << <<"log", "WARN could not read heights">> >>)
                \o When(changed /\ ful_height # last_logged_height,
                        << <<"log", "Heights">> >>)
                \o When(stall, Alert("STALL fulcrum stall suspected", tg_up))
                \o When(recovery = "unhealthy",
                        Alert("STALL skipping auto-restart: bitcoind RPC unhealthy or slow",
                              tg_up))
                \o When(recovery = "refused",
                        RestartFulcrum(FALSE, FALSE, restart_ok, tg_up))
                \o When(restart, RestartFulcrum(FALSE, TRUE, restart_ok, tg_up))
            /\ clock' = clock + (IF probe THEN rpc_latency ELSE 0)
            /\ pc' = IF hung_read \/ recovery = "blocked" THEN "blocked" ELSE "datum"
    /\ dev' = NoDatumEvent
    /\ UNCHANGED <<control_vars, eta_vars, update_vars, config_vars, datum_vars, mev, bitaxe_vars, window, tg_audit>>

\* Line 347: check_datum_service, that is DatumMonitor.watchdog_tick
DatumStep(active_readings, job_ages) ==
    /\ pc = "datum"
    /\ \E active \in active_readings, tg_up \in BOOLEAN :
       \E job \in JobReadings(clock, job_ages) :
        LET d == WatchdogTick(clock, active, job)
            alerted == d.inactive_alert \/ d.zero_alert \/ d.nojob_alert
        IN  /\ ((alerted /\ telegram_enabled) \/ tg_up)
            /\ datum_last_alert_ts' = d.last_alert_ts
            /\ datum_last_zero_client_alert_ts' = d.last_zero_client_alert_ts
            /\ datum_last_job_ts' = d.last_job_ts
            /\ datum_last_job_info' = d.last_job_info
            /\ dev' = [ ticked |-> TRUE, now |-> d.now, active |-> d.active,
                        job_read |-> d.job_read,
                        inactive_alert |-> d.inactive_alert,
                        zero_detected |-> d.zero_detected,
                        zero_alert |-> d.zero_alert,
                        nojob_detected |-> d.nojob_detected,
                        nojob_alert |-> d.nojob_alert,
                        log_lost |-> LogLost(alerted) ]
            /\ audit' = When(d.inactive_alert, Alert("DATUM not active", tg_up))
                     \o When(d.zero_alert, Alert("DATUM 0 stratum clients", tg_up))
                     \o When(d.nojob_alert, Alert("DATUM no new jobs", tg_up))
    /\ ev' = NoEvent
    /\ sev' = NoSpeedEvent
    /\ pc' = "metrics"
    /\ UNCHANGED <<control_vars, eta_vars, update_vars, clock, loop_start, config_vars, main_vars, mev,
                   episode_alerts, episode_due, bitaxe_vars, window, speed_state,
                   tg_audit, fulcrum_restarted_at>>

\* Lines 350-369: CPU, RAM and SSD temperature against their thresholds
MetricsStep(levels) ==
    /\ pc = "metrics"
    /\ \E cpu_pct \in MetricReadings(cpu_alert_threshold, levels),
          ram_pct \in MetricReadings(ram_alert_threshold, levels),
          ssd_temp \in MetricReadings(ssd_temp_threshold, levels),
          tg_up \in BOOLEAN :
        LET cpu_alert == MetricHigh(cpu_pct, cpu_alert_threshold)
            ram_alert == MetricHigh(ram_pct, ram_alert_threshold)
            temp_alert == MetricHigh(ssd_temp, ssd_temp_threshold)
            alerted == cpu_alert \/ ram_alert \/ temp_alert
        IN  /\ ((alerted /\ telegram_enabled) \/ tg_up)
            /\ mev' = [ ticked |-> TRUE, at |-> loop_start, cpu_alert |-> cpu_alert,
                        ram_alert |-> ram_alert, temp_alert |-> temp_alert,
                        log_lost |-> LogLost(alerted) ]
            /\ audit' = When(cpu_alert, Alert("ALERT CPU high load", tg_up))
                     \o When(ram_alert, Alert("ALERT RAM high usage", tg_up))
                     \o When(temp_alert, Alert("ALERT SSD temperature high", tg_up))
    /\ dev' = NoDatumEvent
    /\ pc' = "sleep"
    /\ UNCHANGED <<control_vars, eta_vars, update_vars, clock, loop_start, config_vars, main_vars, datum_vars, ev,
                   episode_alerts, episode_due, bitaxe_vars, speed_vars,
                   tg_audit, fulcrum_restarted_at>>

\* Lines 380-384: sleep for what is left of check_interval
SleepStep ==
    /\ pc = "sleep"
    /\ clock' = Max(clock, loop_start + check_interval)
    /\ audit' = <<>>
    /\ pc' = "heights"
    /\ UNCHANGED <<control_vars, eta_vars, update_vars, loop_start, config_vars, main_vars, datum_vars, ev, dev, mev,
                   episode_alerts, episode_due, bitaxe_vars, speed_vars,
                   tg_audit, fulcrum_restarted_at>>

\* ---------------------------------------------------------- Bitaxe loop

\* bitaxe_checker.py line 114: the gate on _last_fallback_ts
BitaxeFallbackDue(ts) ==
    (ts - bitaxe_last_fallback_ts) >= bitaxe_alert_cooldown_sec

\* bitaxe_checker.py lines 132 and 147: the gate on _last_urgent_ts
BitaxeUrgentDue(ts) ==
    (ts - bitaxe_last_urgent_ts) >= bitaxe_alert_cooldown_sec

\* bitaxe_checker.py lines 101-110: the new _last_accept_change_ts
AcceptChangeTs(snap) ==
    IF snap.ok /\ snap.shares_accepted # None
    THEN IF /\ bitaxe_last_snapshot.seen
            /\ bitaxe_last_snapshot.ok
            /\ bitaxe_last_snapshot.shares_accepted # None
            /\ snap.shares_accepted # bitaxe_last_snapshot.shares_accepted
         THEN snap.ts
         ELSE IF bitaxe_last_accept_change_ts = None THEN snap.ts
         ELSE bitaxe_last_accept_change_ts
    ELSE bitaxe_last_accept_change_ts

\* bitaxe_checker.py lines 115-119: formatting the fallback message applies
\* ":.0f" to hash_rate_hs, which raises TypeError when it is None
FallbackMessageRaises(snap) ==
    snap.hash_rate_hs = None

\* what _fetch can return (lines 58-83): a failed fetch, or a snapshot whose
\* optional fields may be absent
SnapshotsOf(ts, hash_rates, share_counts) ==
    { [ ok |-> FALSE, ts |-> ts, hash_rate_hs |-> None, shares_accepted |-> None,
        is_using_fallback |-> None ] }
    \cup [ ok : {TRUE}, ts : {ts},
           hash_rate_hs : hash_rates,
           shares_accepted : share_counts,
           is_using_fallback : {0, 1} ]

HashRates == {None, bitaxe_min_hashrate_hs - 1, bitaxe_min_hashrate_hs}
ShareCounts == {None} \cup 0..MaxShares

Snapshots(ts) == SnapshotsOf(ts, HashRates, ShareCounts)

TickExceptionContained_Propagates ==
    FALSE

\* monitor_controller.py lines 256-259: an exception raised by tick is caught
\* inside the loop
TickExceptionContained ==
    TRUE

\* One pass of _bitaxe_loop (monitor_controller.py lines 254-261):
\* BitaxeChecker.tick, an exception it raises being caught and logged,
\* then the sleep.
BitaxePoll(hash_rates, share_counts) ==
    /\ bitaxe_loop = "running"
    /\ clock < StartTime + Horizon
    /\ \E snap \in SnapshotsOf(clock, hash_rates, share_counts),
          tg_up \in BOOLEAN :
        LET accept_ts == AcceptChangeTs(snap)
            fallback_detected == snap.ok /\ snap.is_using_fallback = 1
            fallback_due == fallback_detected /\ BitaxeFallbackDue(snap.ts)
            raised == fallback_due /\ FallbackMessageRaises(snap)
            fallback_alert == fallback_due /\ ~raised
            hr_low == snap.hash_rate_hs = None
                      \/ snap.hash_rate_hs < bitaxe_min_hashrate_hs
            no_share_progress == /\ accept_ts # None
                                 /\ (snap.ts - accept_ts) >= bitaxe_no_share_sec
            notprog_detected == ~raised /\ snap.ok /\ (hr_low \/ no_share_progress)
            notprog_alert == notprog_detected /\ BitaxeUrgentDue(snap.ts)
            unreachable_detected == ~snap.ok
            unreachable_alert == unreachable_detected /\ BitaxeUrgentDue(snap.ts)
            alerted == fallback_alert \/ notprog_alert \/ unreachable_alert
        IN  /\ ((alerted /\ telegram_enabled) \/ tg_up)
            /\ bitaxe_last_accept_change_ts' = accept_ts
            /\ bitaxe_last_fallback_ts' =
                   IF fallback_alert THEN snap.ts ELSE bitaxe_last_fallback_ts
            /\ bitaxe_last_urgent_ts' =
                   IF notprog_alert \/ unreachable_alert
                   THEN snap.ts ELSE bitaxe_last_urgent_ts
            /\ bitaxe_last_snapshot' =
                   IF raised THEN bitaxe_last_snapshot
                   ELSE [ ok |-> snap.ok, shares_accepted |-> snap.shares_accepted,
                          seen |-> TRUE ]
            /\ bev' = [ ticked |-> TRUE, ts |-> snap.ts, ok |-> snap.ok,
                        raised |-> raised,
                        fallback_detected |-> fallback_detected,
                        fallback_alert |-> fallback_alert,
                        notprog_detected |-> notprog_detected,
                        notprog_alert |-> notprog_alert,
                        unreachable_detected |-> unreachable_detected,
                        unreachable_alert |-> unreachable_alert,
                        log_lost |-> LogLost(alerted \/ raised),
                        \* lines 124-131: the snapshot shows a miner not mining
                        not_mining |-> snap.ok /\ (hr_low \/ no_share_progress),
                        \* the count differs from the one fetched last
                        progress |-> /\ snap.ok
                                     /\ snap.shares_accepted # None
                                     /\ bev.fetched_shares # None
                                     /\ snap.shares_accepted # bev.fetched_shares,
                        \* the count of the latest successful fetch
                        fetched_shares |-> IF snap.ok THEN snap.shares_accepted
                                           ELSE bev.fetched_shares ]
            /\ bitaxe_emit' =
                   [ fallback |-> IF fallback_alert THEN snap.ts
                                  ELSE bitaxe_emit.fallback,
                     not_progressing |-> IF notprog_alert THEN snap.ts
                                         ELSE bitaxe_emit.not_progressing,
                     unreachable |-> IF unreachable_alert THEN snap.ts
                                     ELSE bitaxe_emit.unreachable ]
            /\ bitaxe_audit' =
                   When(fallback_alert, Alert("BITAXE miner is using fallback stratum", tg_up))
                \o When(notprog_alert, Alert("BITAXE miner not progressing", tg_up))
                \o When(unreachable_alert, Alert("BITAXE cannot reach AxeOS", tg_up))
                \o When(raised /\ TickExceptionContained,
                        << <<"log", "BITAXE tick exception">> >>)
            /\ bitaxe_loop' = IF raised /\ ~TickExceptionContained
                              THEN "stopped" ELSE "running"
    /\ clock' = clock + bitaxe_check_interval
    /\ UNCHANGED <<control_vars, eta_vars, update_vars, pc, loop_start, config_vars, main_vars, datum_vars, main_obs,
                   speed_vars, tg_audit, fulcrum_restarted_at>>

BitaxeTick == BitaxePoll(HashRates, ShareCounts)

\* ------------------------------------------------ Telegram command thread

Commands == {"/restart_fulcrum", "/restart_bitcoind", "/check_rpc"}

\* TelegramService._handle_update (telegram_service.py lines 148-227) for a
\* command of the operator, with the callback it runs (monitor_controller.py
\* lines 160-182): restart_fulcrum_manual forces the restart, whatever the
\* flag and however recent the last recovery.
TelegramCommand(commands) ==
    /\ telegram_enabled
    /\ \E cmd \in commands, ok \in BOOLEAN, tg_up \in BOOLEAN :
        /\ tg_audit' =
               IF cmd = "/restart_fulcrum"
               THEN RestartFulcrum(TRUE, TRUE, ok, tg_up)
                    \o Dispatch("Requested Fulcrum restart.", tg_up)
               ELSE IF cmd = "/restart_bitcoind"
               THEN << <<"log", "ADMIN restarting bitcoind">> >>
                    \o (IF ok THEN Alert("ADMIN bitcoind restart triggered", tg_up)
                        ELSE Alert("ERR failed to restart bitcoind", tg_up))
                    \o Dispatch("Requested bitcoind restart.", tg_up)
               ELSE When(~ok, << <<"log", "ERR get_bitcoind_height failed">> >>)
                    \o Dispatch("bitcoind RPC result", tg_up)
        /\ last_recovery_time' =
               IF cmd = "/restart_fulcrum"
               THEN RecoveryTimeAfter("manual", clock) ELSE last_recovery_time
        /\ fulcrum_restarted_at' =
               IF cmd = "/restart_fulcrum" /\ ok THEN clock ELSE fulcrum_restarted_at
    /\ UNCHANGED <<control_vars, eta_vars, update_vars, clock, pc, loop_start, config_vars, last_height_change_time,
                   last_fulcrum_height, last_logged_height, stall_notified,
                   datum_vars, main_obs, bitaxe_vars, speed_vars>>

\* the texts of the messages explored: none, plain words, every command and
\* alias of the handler alone or followed by a word, "/" alone and a command
\* the handler does not know
Words ==
    { "start", "help", "status", "check_rpc", "restart_fulcrum",
      "restart_bitcoind", "datum", "investigate_datum", "mining",
      "h", "ns", "ms", "ds", "id", "rpc", "rf", "rb", "", "does_not_exist" }

Texts ==
    { <<>>, << [slash |-> FALSE, word |-> "status"] >> }
    \cup { << [slash |-> TRUE, word |-> w] >> : w \in Words }
    \cup { << [slash |-> TRUE, word |-> w], [slash |-> FALSE, word |-> "now"] >> :
             w \in {"status", "rf"} }

OffsetAfter_KeptOnRaise(offset, update_id, raised) ==
    IF raised THEN offset ELSE update_id + 1

\* lines 142-145: the offset after one update of the batch, set whether or
\* not _handle_update raised (lines 138-141)
OffsetAfter(offset, update_id, raised) ==
    update_id + 1

\* One update of a getUpdates answer in TelegramService._loop
\* (telegram_service.py lines 133-146): _handle_update on it, then the offset
\* moved past it.  A callback that runs returns a text or nothing.
PollUpdate(kinds, chats, texts) ==
    /\ telegram_enabled
    /\ NextUpdateId <= MaxUpdateId
    /\ \E kind \in kinds, chat \in chats, text \in texts, out \in {"", "OK"} :
        LET upd == [update_id |-> NextUpdateId, kind |-> kind,
                    chat_id |-> chat, text |-> text]
            reply == HandleUpdate(upd, out)
        IN  /\ (reply.invoked # <<>> \/ out = "")
            /\ tg_update' = upd
            /\ tg_reply' = reply
            /\ tg_offset' = OffsetAfter(tg_offset, upd.update_id, FALSE)
            /\ tg_batch' = <<upd.update_id>>
            /\ tg_handled' = Append(tg_handled, upd.update_id)
            /\ tg_raised' = tg_raised
    /\ UNCHANGED <<control_vars, eta_vars, clock, pc, loop_start, config_vars, main_vars,
                   datum_vars, main_obs, bitaxe_vars, speed_vars, tg_audit,
                   fulcrum_restarted_at>>

\* the ids of a set, as getUpdates lists them: ascending
RECURSIVE Ascending(_)
Ascending(ids) ==
    IF ids = {} THEN <<>>
    ELSE LET least == CHOOSE i \in ids : \A j \in ids : i <= j
         IN  <<least>> \o Ascending(ids \ {least})

\* getUpdates (lines 121-131) answers with pending updates whose ids are at
\* or above the offset sent, at most MaxBatch of them
Batches(first, last) ==
    { ids \in SUBSET (first..last) : ids # {} /\ Cardinality(ids) <= MaxBatch }

\* the state of the loop of lines 137-145 between two updates
LoopState ==
    [ offset |-> tg_offset, update |-> tg_update, reply |-> tg_reply,
      handled |-> tg_handled, raised |-> tg_raised ]

\* lines 137-145 on the rest of a batch: each update is handled, a raising
\* callback is caught and logged, the offset is set, then the next one
RECURSIVE HandleBatch(_, _, _)
HandleBatch(ids, content, st) ==
    IF ids = <<>> THEN st
    ELSE LET id == Head(ids)
             upd == [update_id |-> id, kind |-> "message",
                     chat_id |-> chat_id, text |-> content[id].text]
             reply == HandleUpdate(upd, "OK")
             raised == content[id].raises /\ reply.invoked # <<>>
         IN  HandleBatch(Tail(ids), content,
                [ offset |-> OffsetAfter(st.offset, id, raised),
                  update |-> upd,
                  reply |-> IF raised THEN [reply EXCEPT !.calls = <<>>] ELSE reply,
                  handled |-> Append(st.handled, id),
                  raised |-> IF raised THEN st.raised \cup {id} ELSE st.raised ])

\* One pass of TelegramService._loop (lines 133-146) whose getUpdates answer
\* holds updates: messages of the configured chat, whose callback may raise.
\* A failed or empty answer (lines 129-131, 136) changes nothing.
PollBatch(texts) ==
    /\ telegram_enabled
    /\ NextUpdateId <= MaxPolledId
    /\ \E ids \in Batches(NextUpdateId, MaxPolledId) :
       \E content \in [ids -> [text : texts, raises : BOOLEAN]] :
        LET st == HandleBatch(Ascending(ids), content, LoopState)
        IN  /\ \A id \in ids :
                 content[id].raises =>
                     HandleUpdate([update_id |-> id, kind |-> "message",
                                   chat_id |-> chat_id, text |-> content[id].text],
                                  "OK").invoked # <<>>
            /\ tg_offset' = st.offset
            /\ tg_update' = st.update
            /\ tg_reply' = st.reply
            /\ tg_batch' = Ascending(ids)
            /\ tg_handled' = st.handled
            /\ tg_raised' = st.raised
    /\ UNCHANGED <<control_vars, eta_vars, clock, pc, loop_start, config_vars, main_vars,
                   datum_vars, main_obs, bitaxe_vars, speed_vars, tg_audit,
                   fulcrum_restarted_at>>

\* ------------------------------------------------- the rate tracker alone

Windows == 0..MaxWindow

\* One call of SpeedTracker.update (speed_tracker.py lines 16-27) by any
\* caller: any reading, at the clock's time or one unit later.
SpeedUpdate ==
    /\ sev.calls < MaxUpdates
    /\ \E height \in HeightReadings, elapsed \in 0..1 :
        LET now == clock + elapsed
            tracked == Update(height, now)
        IN  /\ samples' = tracked.samples
            /\ last_height' = tracked.last_height
            /\ last_time' = tracked.last_time
            /\ sev' = [ updated |-> TRUE, height |-> height,
                        prev_height |-> last_height, prev_len |-> Len(samples),
                        appended |-> tracked.appended, calls |-> sev.calls + 1,
                        rates |-> IF tracked.appended
                                  THEN Append(sev.rates, tracked.sample)
                                  ELSE sev.rates ]
            /\ clock' = now
    /\ UNCHANGED <<control_vars, eta_vars, update_vars, pc, loop_start, config_vars, main_vars, datum_vars, main_obs,
                   bitaxe_vars, window, tg_audit, fulcrum_restarted_at>>

\* ------------------------------------------------------ the ETA commands

first_height == 100

\* One more "Heights:" line in monitor.log (monitor_controller.py lines
\* 292-296), as _parse_monitor_log (eta_model.py lines 59-99) reads it: the
\* first at time 0, a later one some seconds after the line before it, with
\* the Fulcrum height and the lag it reports.
LogHeights(intervals, steps, lag_steps, first_lags) ==
    /\ Len(monitor_log) < MaxLog
    /\ \E dt \in intervals, dh \in steps, dl \in lag_steps, lag0 \in first_lags :
        LET prev == monitor_log[Len(monitor_log)]
            sample == IF monitor_log = <<>>
                      THEN [t |-> 0, fulcrum_height |-> first_height, lag |-> lag0]
                      ELSE [t |-> prev.t + dt,
                            fulcrum_height |-> prev.fulcrum_height + dh,
                            lag |-> prev.lag + dl]
        IN  /\ IF monitor_log = <<>>
               THEN /\ dt = (CHOOSE x \in intervals : TRUE)
                    /\ dh = (CHOOSE x \in steps : TRUE)
                    /\ dl = (CHOOSE x \in lag_steps : TRUE)
               ELSE lag0 = (CHOOSE x \in first_lags : TRUE)
            /\ sample.fulcrum_height >= 0
            /\ sample.lag >= 0
            /\ monitor_log' = Append(monitor_log, sample)
    /\ eta_out' = NoEta
    /\ UNCHANGED <<speed_samples, window_out>>
    /\ UNCHANGED <<control_vars, update_vars, clock, pc, loop_start, config_vars, main_vars, datum_vars,
                   main_obs, bitaxe_vars, speed_vars, tg_audit,
                   fulcrum_restarted_at>>

\* compute_eta_and_charts called on the log as it is
ComputeEta ==
    /\ \E numpy_installed \in BOOLEAN, charts_ok \in BOOLEAN :
        LET out == ComputeEtaAndCharts(monitor_log, numpy_installed, charts_ok)
        IN  /\ (out.has_eta \/ charts_ok)
            /\ eta_out' = out
    /\ UNCHANGED <<control_vars, update_vars, clock, pc, loop_start, config_vars, main_vars, datum_vars,
                   main_obs, bitaxe_vars, speed_vars, tg_audit,
                   fulcrum_restarted_at, monitor_log, speed_samples, window_out>>

\* One more "Heights:" line of this Fulcrum run, as
\* load_samples_since_restart (speed_history.py lines 52-103) reads it; the
\* line carries the lag and speed the main loop wrote (monitor_controller.py
\* lines 279-294).
SpeedLine(speeds, lags) ==
    /\ Len(speed_samples) < MaxSpeedLines
    /\ \E speed \in speeds, lag \in lags :
        speed_samples' = Append(speed_samples, [speed |-> speed, lag |-> lag])
    /\ window_out' = NoWindow
    /\ UNCHANGED <<control_vars, update_vars, clock, pc, loop_start, config_vars, main_vars, datum_vars,
                   main_obs, bitaxe_vars, speed_vars, tg_audit,
                   fulcrum_restarted_at, monitor_log, eta_out>>

\* build_speed_report (speed_history.py lines 168-220) on a run with samples:
\* its summary is _compute_eta_window(samples)
ComputeWindow ==
    /\ speed_samples # <<>>
    /\ window_out' = ComputeEtaWindow(speed_samples)
    /\ UNCHANGED <<control_vars, update_vars, clock, pc, loop_start, config_vars, main_vars, datum_vars,
                   main_obs, bitaxe_vars, speed_vars, tg_audit,
                   fulcrum_restarted_at, monitor_log, eta_out, speed_samples>>

\* A counter that only rises, read at positive intervals, each update
\* followed by get_stats as in the main loop (monitor_controller.py lines
\* 277-278).
CounterSteps == {1, 2}
Elapsed == {1, 3}

StatsStep ==
    /\ sev.calls < MaxUpdates
    /\ \E first \in Heights, step \in CounterSteps, elapsed \in Elapsed :
        LET height == IF last_height = None THEN first ELSE last_height + step
            now == clock + elapsed
            tracked == Update(height, now)
        IN  /\ (last_height = None \/ first = 1)
            /\ (last_height # None \/ (step = 1 /\ elapsed = 1))
            /\ samples' = tracked.samples
            /\ last_height' = tracked.last_height
            /\ last_time' = tracked.last_time
            /\ sev' = [ updated |-> TRUE, height |-> height,
                        prev_height |-> last_height, prev_len |-> Len(samples),
                        appended |-> tracked.appended, calls |-> sev.calls + 1,
                        rates |-> IF tracked.appended
                                  THEN Append(sev.rates, tracked.sample)
                                  ELSE sev.rates,
                        stats |-> GetStats(tracked.samples) ]
            /\ clock' = now
    /\ UNCHANGED <<control_vars, eta_vars, update_vars, pc, loop_start, config_vars, main_vars, datum_vars, main_obs,
                   bitaxe_vars, window, tg_audit, fulcrum_restarted_at>>

\* ------------------------------------------------------- specifications

\* The main loop with every reading its sources can return.
MainNext ==
    \/ ReadHeights({None, MaxHeight}, HeightReadings)
    \/ DatumStep(BOOLEAN, JobAges)
    \/ MetricsStep(MetricLevels)
    \/ SleepStep

\* The whole process: the main loop, the Bitaxe loop and the Telegram thread.
Next == MainNext \/ BitaxeTick \/ TelegramCommand(Commands)

Spec == Init /\ [][Next]_vars

\* The stall detector and the recovery gate: the main loop while the DATUM
\* gateway is active, its journal shows no job line and no metric can be
\* read.  The watchdog's fields are read and written by DatumStep alone.
StallNext ==
    \/ ReadHeights({None, MaxHeight}, HeightReadings)
    \/ DatumStep({TRUE}, {})
    \/ MetricsStep({})
    \/ SleepStep

SpecStall == Init /\ [][StallNext]_vars

\* The metric alerts: the main loop while neither height can be read and the
\* DATUM gateway is active with no job line.
MetricsNext ==
    \/ ReadHeights({None}, {None})
    \/ DatumStep({TRUE}, {})
    \/ MetricsStep(MetricLevels)
    \/ SleepStep

SpecMetrics == Init /\ [][MetricsNext]_vars

\* The DATUM watchdog: the main loop while bitcoind cannot be read and no
\* metric can be read.  The stall detector's fields stay as constructed.
DatumNext ==
    \/ ReadHeights({None}, HeightReadings)
    \/ DatumStep(BOOLEAN, JobAges)
    \/ MetricsStep({})
    \/ SleepStep

SpecDatum == Init /\ [][DatumNext]_vars

\* The Bitaxe poll loop alone: it shares no field with the main loop.
\* ENABLE_AUTO_RESTART, which it never reads, is left at its default.
InitBitaxe == Init /\ ~enable_auto_restart

SpecBitaxe == InitBitaxe /\ [][BitaxeTick]_vars

\* The Bitaxe poll loop with a miner whose hash rate is always reported and
\* sufficient: fetches fail or succeed, the share count moves or stays.
SharesNext == BitaxePoll({bitaxe_min_hashrate_hs}, ShareCounts)

SpecShares == InitBitaxe /\ [][SharesNext]_vars

\* A SpeedTracker used alone, constructed with any window.
InitSpeed == InitWith(Windows, {TRUE})

SpecSpeed == InitSpeed /\ [][SpeedUpdate]_vars

\* the ETA model alone
InitEta == Init /\ ~enable_auto_restart /\ ~telegram_enabled

\* logs whose heights and lags rise, stay and fall from line to line
FilterNext ==
    \/ LogHeights({1}, {-1, 0, 1}, {-1, 0, 1}, {2})
    \/ ComputeEta

SpecFilter == InitEta /\ [][FilterNext]_vars

\* logs with lines in the same second or 600 s apart, heights that rise by 60
\* or fall by 20, and a lag of 1000 blocks that stays or falls by 250
EtaNext ==
    \/ LogHeights({0, 600}, {-20, 60}, {-250, 0}, {1000})
    \/ ComputeEta

SpecEta == InitEta /\ [][EtaNext]_vars

\* both ETA reports, one log at a time: the regression on logs that rise by
\* 60 blocks or fall by 20 every 600 s, the speed report on lines with a speed
\* of 0, 0.001 or 0.009 block/s or none, and a lag of 3 blocks or none
BandNext ==
    \/ (speed_samples = <<>> /\ LogHeights({600}, {-20, 60}, {-250, 0}, {1000}))
    \/ ComputeEta
    \/ (monitor_log = <<>> /\ SpeedLine({None, 0, 1, 9}, {None, 3}))
    \/ ComputeWindow

SpecBand == InitEta /\ [][BandNext]_vars

\* the tracker fed by a rising counter, with its statistics
SpecStats == InitSpeed /\ [][StatsStep]_vars

\* The main loop when a reader may never return.
ProbesNext ==
    \/ ReadHeights({Hang, None, MaxHeight}, {Hang, MaxHeight})
    \/ DatumStep({TRUE}, {})
    \/ MetricsStep({})
    \/ SleepStep

SpecProbes == Init /\ [][ProbesNext]_vars

\* The three threads together, over a short horizon: the main loop with a
\* Fulcrum height that never moves, the Bitaxe loop with a miner that cannot
\* be reached, and the operator's restart command.
ThreadsNext ==
    \/ (clock < StartTime + ShortHorizon /\ ReadHeights({MaxHeight}, {MaxHeight}))
    \/ DatumStep({TRUE}, {})
    \/ MetricsStep({})
    \/ SleepStep
    \/ (clock < StartTime + ShortHorizon /\ BitaxePoll({}, {}))
    \/ TelegramCommand({"/restart_fulcrum"})

\* the Telegram thread exists when the service was constructed
InitThreads == Init /\ telegram_enabled

SpecThreads == InitThreads /\ [][ThreadsNext]_vars

\* the Telegram thread alone, polling updates of any kind from the configured
\* chat, from another chat and from no chat
UpdatesNext ==
    PollUpdate({"message", "edited_message", "channel_post"}, {"", "123", "999"}, Texts)

SpecUpdates == InitThreads /\ [][UpdatesNext]_vars

\* The two loops together, over a short horizon, with the outcomes a tick can
\* meet: an unreadable bitcoind, an unhealthy probe, a failed restart, a
\* failed dispatch, an inactive DATUM gateway, a miner that reports no hash
\* rate or cannot be reached.
LoopsNext ==
    \/ (clock < StartTime + ShortHorizon /\ ReadHeights({None, MaxHeight}, {MaxHeight}))
    \/ DatumStep({FALSE}, {})
    \/ MetricsStep({})
    \/ SleepStep
    \/ (clock < StartTime + BitaxeHorizon /\ BitaxePoll({None}, {None}))

\* the log file may be unwritable
InitLoops == InitWith({speed_window}, BOOLEAN)

SpecLoops == InitLoops /\ [][LoopsNext]_vars

\* The Telegram thread polled batch by batch: plain text, a command whose
\* callback runs, and a command the handler does not know.
BatchTexts ==
    { << [slash |-> FALSE, word |-> "status"] >>,
      << [slash |-> TRUE, word |-> "status"] >>,
      << [slash |-> TRUE, word |-> "does_not_exist"] >> }

BatchesNext == PollBatch(BatchTexts)

SpecBatches == InitThreads /\ [][BatchesNext]_vars

\* The control server alone, next to a local.env that exists or not.
ControlNext == ControlPost(TokenFiles, TokenHeaders, Paths, Bodies)

InitControl == InitOn({speed_window}, {TRUE}, Envs) /\ ~enable_auto_restart /\ ~telegram_enabled

SpecControl == InitControl /\ [][ControlNext]_vars


\* --------------------------------------------------------------- claims

\* C1: every stall episode produces exactly one stall alert, on the first
\* tick with readable heights that finds the height frozen for longer than
\* stall_threshold; later ticks of the episode add none, and a new episode
\* after a height change gets its own single alert.
C1_OneAlertPerEpisode ==
    episode_alerts = (IF episode_due THEN 1 ELSE 0)

\* a second episode has been notified after a restart in an earlier one, and
\* a later tick of it found the height still frozen and stayed silent
C1_Witness ==
    /\ ev.ticked /\ ev.btc # None /\ ev.ful # None /\ ~ev.changed
    /\ ev.was_notified /\ ~ev.stall_alert
    /\ episode_alerts = 1
    /\ last_recovery_time > 0
    /\ last_recovery_time < last_height_change_time

\* C2: a stall alert is emitted only on a tick that has a baseline
\* (last_height_change_time set by an earlier reading) and finds
\* tick_start - last_height_change_time strictly above stall_threshold.
C2_NoAlertWithoutBaseline ==
    [][ (pc = "heights" /\ ev'.stall_alert)
        => /\ last_height_change_time # None
           /\ clock - last_height_change_time > stall_threshold ]_vars

\* a tick found the height frozen for exactly stall_threshold and stayed silent
C2_Witness ==
    /\ ev.ticked /\ ev.btc # None /\ ev.ful # None /\ ~ev.changed
    /\ ~ev.stall_alert /\ ~ev.was_notified
    /\ loop_start - last_height_change_time = stall_threshold

\* C3: a tick that reads both heights and finds the Fulcrum height above the
\* recorded one sets last_height_change_time to the tick's start, records the
\* new height and clears stall_notified, whatever the stall state was.
C3_AdvanceResets ==
    [][ ( /\ pc = "heights" /\ ev'.ticked
          /\ ev'.btc # None /\ ev'.ful # None
          /\ last_fulcrum_height # None /\ ev'.ful > last_fulcrum_height )
        => /\ last_height_change_time' = clock
           /\ last_fulcrum_height' = ev'.ful
           /\ stall_notified' = FALSE ]_vars

\* the height advanced on a tick that found the detector stalled and notified
C3_Witness ==
    /\ ev.ticked /\ ev.changed /\ ev.was_notified
    /\ ev.ful = MaxHeight
    /\ last_fulcrum_height = MaxHeight
    /\ last_height_change_time = loop_start
    /\ ~stall_notified

\* C4: for each cooldown-gated class, on a tick that detects the class's
\* condition the alert is emitted exactly when now - last_fired >= cooldown,
\* emitting sets last_fired to now, and two alerts of the class are at least
\* one cooldown apart.
C4_CooldownGate ==
    [][ /\ bev'.fallback_detected =>
             /\ bev'.fallback_alert
                  <=> (clock - bitaxe_last_fallback_ts >= bitaxe_alert_cooldown_sec)
             /\ bev'.fallback_alert => bitaxe_last_fallback_ts' = clock
             /\ bev'.fallback_alert
                  => clock - bitaxe_emit.fallback >= bitaxe_alert_cooldown_sec
        /\ (bev'.notprog_detected \/ bev'.unreachable_detected) =>
             /\ (bev'.notprog_alert \/ bev'.unreachable_alert)
                  <=> (clock - bitaxe_last_urgent_ts >= bitaxe_alert_cooldown_sec)
             /\ (bev'.notprog_alert \/ bev'.unreachable_alert)
                  => bitaxe_last_urgent_ts' = clock
        /\ (pc = "datum" /\ ~dev'.active) =>
             /\ dev'.inactive_alert
                  <=> (clock - datum_last_alert_ts >= datum_cooldown_sec)
             /\ dev'.inactive_alert => datum_last_alert_ts' = clock
        /\ (pc = "datum" /\ dev'.zero_detected) =>
             /\ dev'.zero_alert
                  <=> (clock - datum_last_zero_client_alert_ts >= datum_cooldown_sec)
             /\ dev'.zero_alert => datum_last_zero_client_alert_ts' = clock
        /\ (pc = "datum" /\ dev'.nojob_detected) =>
             /\ dev'.nojob_alert
                  <=> (clock - datum_last_alert_ts >= datum_cooldown_sec)
             /\ dev'.nojob_alert => datum_last_alert_ts' = clock
      ]_vars

\* C5: a CPU, RAM or temperature reading that stays above its threshold is
\* announced once per cooldown window, not once per tick: two announcements
\* of one class are never made on ticks a single check_interval apart.
C5_MetricCooldown ==
    [][ (pc = "metrics" /\ mev.ticked)
        => /\ (mev.cpu_alert /\ mev'.cpu_alert) => mev'.at - mev.at > check_interval
           /\ (mev.ram_alert /\ mev'.ram_alert) => mev'.at - mev.at > check_interval
           /\ (mev.temp_alert /\ mev'.temp_alert) => mev'.at - mev.at > check_interval
      ]_vars

\* C6: alert classes are independent: a detection of the Bitaxe
\* 'not progressing' or 'unreachable' class is announced whenever that
\* class itself has not fired within the cooldown, whatever other class fired.
C6_ClassesIndependent ==
    [][ /\ ( /\ bev'.notprog_detected
             /\ clock - bitaxe_emit.not_progressing >= bitaxe_alert_cooldown_sec )
           => bev'.notprog_alert
        /\ ( /\ bev'.unreachable_detected
             /\ clock - bitaxe_emit.unreachable >= bitaxe_alert_cooldown_sec )
           => bev'.unreachable_alert
      ]_vars

\* C7: a main-loop tick that cannot read the bitcoind or the Fulcrum height
\* dispatches an 'unreachable' alert (no such alert was sent before, so no
\* cooldown of its own can suppress it).
C7_UnreachableAlerted ==
    (telegram_enabled /\ ev.ticked /\ (ev.btc = None \/ ev.ful = None))
        => \E i \in DOMAIN audit : audit[i][1] = "send"

\* C8: on a stall the health probe runs only after the feature flag and the
\* rate limit have passed: never with auto-restart disabled, never while
\* now - last_recovery_time <= min_recovery_interval.
C8_ProbeAfterFlagAndRateLimit ==
    [][ (pc = "heights" /\ ev'.probe)
        => /\ enable_auto_restart
           /\ clock - last_recovery_time > min_recovery_interval ]_vars

\* a stall was notified with auto-restart enabled exactly min_recovery_interval
\* after the last recovery, and the probe was not run
C8_Witness ==
    /\ ev.stall_alert /\ ~ev.probe
    /\ enable_auto_restart
    /\ loop_start - last_recovery_time = min_recovery_interval

\* C9: with auto-restart disabled the main loop never restarts Fulcrum on a
\* stall.
C9_DisabledNeverRestarts ==
    ~enable_auto_restart => ~ev.restart

\* a stall was notified with auto-restart disabled
C9_Witness ==
    ~enable_auto_restart /\ ev.stall_alert /\ ev.recovery = "skipped"

\* C10: when the probe of a stall recovery returns no height or takes longer
\* than rpc_latency_threshold, no restart is performed and last_recovery_time
\* keeps its value, on the first attempt as on any other.
C10_UnhealthyProbeSkips ==
    [][ ( /\ pc = "heights" /\ ev'.probe
          /\ (ev'.test_height = None \/ ev'.rpc_latency > rpc_latency_threshold) )
        => /\ ~ev'.restart
           /\ last_recovery_time' = last_recovery_time ]_vars

\* the first recovery attempt since start met a probe that answered, but
\* slower than the threshold, and nothing was restarted
C10_Witness ==
    /\ ev.probe /\ ev.test_height # None
    /\ ev.rpc_latency > rpc_latency_threshold
    /\ ~ev.restart
    /\ last_recovery_time = 0

\* C11: last_recovery_time is set, to the tick's start, exactly on a tick
\* whose stall recovery passes the flag, the rate limit and the health probe
\* and calls the restart, and keeps its value on every other step; so a
\* recovery comes more than min_recovery_interval after the one before it,
\* and an attempt at exactly min_recovery_interval is suppressed.
C11_RecoveryTimeSetOnRestart ==
    [][ /\ (pc = "heights" /\ ev'.restart)
           <=> ( /\ pc = "heights" /\ ev'.stall_alert
                 /\ enable_auto_restart
                 /\ clock - last_recovery_time > min_recovery_interval
                 /\ ev'.probe
                 /\ ev'.test_height # None
                 /\ ev'.rpc_latency <= rpc_latency_threshold )
        /\ (pc = "heights" /\ ev'.restart) => last_recovery_time' = clock
        /\ ~(pc = "heights" /\ ev'.restart) => last_recovery_time' = last_recovery_time
        /\ (pc = "heights" /\ ev'.stall_alert
              /\ clock - last_recovery_time = min_recovery_interval)
           => ~ev'.restart
      ]_vars

\* a second recovery restarted Fulcrum min_recovery_interval + 1 after the
\* first one
C11_Witness ==
    /\ ev.restart
    /\ ev.prev_recovery_time > 0
    /\ loop_start - ev.prev_recovery_time = min_recovery_interval + 1
    /\ last_recovery_time = loop_start

\* C12: the rate limit covers every restart of Fulcrum the process makes,
\* automatic or by the operator's restart_fulcrum command: once Fulcrum has
\* been restarted, the next restart is more than min_recovery_interval later.
C12_SharedRateLimit ==
    [][ (fulcrum_restarted_at # None /\ fulcrum_restarted_at' # fulcrum_restarted_at)
          => fulcrum_restarted_at' - fulcrum_restarted_at > min_recovery_interval
      ]_vars

\* C13: whenever a stall is notified and the automatic recovery is not
\* performed, the tick appends an audit record that states the reason: one for
\* the disabled flag, one for the rate limit, one for the unhealthy dependency,
\* each distinguishable from the others and from the stall record itself.
C13_SkipReasonAudited ==
    (pc = "datum" /\ ev.ticked /\ ev.stall_alert /\ ~ev.restart)
        => \E i \in DOMAIN audit :
              audit[i] = << "log",
                            IF ~enable_auto_restart
                            THEN "STALL auto-restart disabled"
                            ELSE IF ev.recovery = "skipped"
                            THEN "STALL auto-restart rate-limited"
                            ELSE "STALL skipping auto-restart: bitcoind RPC unhealthy or slow" >>

\* C14: every alert or recovery notification that is handed to the messaging
\* client has had its audit record passed to Logger.log earlier in the same
\* tick, in the main loop (stall, probe, restart_fulcrum, DATUM) and in
\* BitaxeChecker, whether the dispatch then succeeds or fails.
C14_AuditBeforeDispatch ==
    /\ \A i \in DOMAIN audit :
          audit[i][1] = "send"
            => \E j \in 1..(i - 1) : audit[j] = <<"log", audit[i][2]>>
    /\ \A i \in DOMAIN bitaxe_audit :
          bitaxe_audit[i][1] = "send"
            => \E j \in 1..(i - 1) : bitaxe_audit[j] = <<"log", bitaxe_audit[i][2]>>

\* a recovery whose notification failed, and a Bitaxe alert whose dispatch
\* failed, each with its record written first
C14_Witness ==
    /\ Len(audit) >= 6
    /\ audit[Len(audit) - 2] = <<"log", "RECOVERY fulcrum restart triggered">>
    /\ audit[Len(audit) - 1] = <<"send", "RECOVERY fulcrum restart triggered">>
    /\ audit[Len(audit)] = <<"log", "TG sendMessage error">>
    /\ Len(bitaxe_audit) = 3
    /\ bitaxe_audit[1][1] = "log"
    /\ bitaxe_audit[2] = <<"send", bitaxe_audit[1][2]>>
    /\ bitaxe_audit[3] = <<"log", "TG sendMessage error">>

C16_LoopsContinue ==
    [][ LET FailedSend(a) ==
                \E i \in DOMAIN a : a[i] = <<"log", "TG sendMessage error">>
        IN  /\ ( /\ pc = "heights" /\ ev'.ticked
                 /\ \/ ev'.btc = None
                    \/ ev'.recovery = "unhealthy"
                    \/ (ev'.restart /\ ~ev'.restart_ok)
                    \/ FailedSend(audit')
                    \/ ev'.log_lost )
                  => pc' = "datum"
            /\ ( /\ pc = "datum" /\ dev'.ticked
                 /\ (FailedSend(audit') \/ dev'.log_lost) )
                  => pc' = "metrics"
            /\ (pc = "metrics" /\ pc' # pc) => pc' = "sleep"
            /\ (pc = "sleep" /\ pc' # pc) => pc' = "heights"
            /\ ( /\ bev' # bev
                 /\ \/ bev'.raised
                    \/ ~bev'.ok
                    \/ FailedSend(bitaxe_audit')
                    \/ bev'.log_lost )
                  => bitaxe_loop' = "running"
      ]_vars

\* with an unwritable log file: a tick that cannot read bitcoind, after an
\* earlier tick whose restart of Fulcrum failed; and a Bitaxe pass that raised,
\* after an earlier pass that alerted, the Bitaxe loop still running
C16_Witness ==
    /\ ~log_writable
    /\ last_recovery_time >= StartTime
    /\ fulcrum_restarted_at = None
    /\ ev.ticked
    /\ ev.btc = None
    /\ loop_start > last_recovery_time
    /\ bev.ticked
    /\ bev.raised
    /\ bitaxe_last_urgent_ts >= StartTime
    /\ bev.ts > bitaxe_last_urgent_ts
    /\ bitaxe_loop = "running"

\* C17: every main-loop tick terminates, each external probe (the bitcoind
\* height read, the Fulcrum height read, the health probe of the recovery)
\* being bounded by a timeout: the loop is never left waiting inside a probe.
C17_TickTerminates ==
    pc # "blocked"

C19_SamplesWithinWindow ==
    Len(samples) <= window

\* C20: an update whose counter is lower than last_height appends no sample,
\* so that no sample is ever negative, while last_height and last_time are set
\* to the new, lower reading.
C20_DecreaseDropped ==
    [][ /\ (sev'.updated /\ last_height # None /\ sev'.height # None
              /\ sev'.height < last_height)
           => /\ samples' = samples
              /\ last_height' = sev'.height
              /\ last_time' = clock'
        /\ \A i \in DOMAIN samples' : samples'[i][1] >= 0 /\ samples'[i][2] > 0
      ]_vars

\* the counter went down after samples had been collected: nothing was
\* appended and the tracker holds the lower reading
C20_Witness ==
    /\ sev.updated
    /\ sev.prev_height # None
    /\ sev.height # None
    /\ sev.height < sev.prev_height
    /\ ~sev.appended
    /\ Len(samples) > 0
    /\ Len(samples) = sev.prev_len
    /\ last_height = sev.height
    /\ last_time = clock

\* C21: every SpeedTracker.update call sets last_height to the given counter
\* and last_time to the call time, appended or not; the sample dh/dt is
\* appended exactly when a previous observation exists, dt > 0 and dh >= 0,
\* so the first call appends nothing.
C21_UpdateEffect ==
    [][ (sev'.calls # sev.calls)
          => /\ last_height' = sev'.height
             /\ last_time' = clock'
             /\ sev'.appended
                  <=> ( /\ last_height # None /\ sev'.height # None
                        /\ last_time # None
                        /\ clock' - last_time > 0
                        /\ sev'.height - last_height >= 0 )
             /\ sev'.appended
                  => /\ samples' # <<>>
                     /\ samples'[Len(samples')]
                          = <<sev'.height - last_height, clock' - last_time>>
             /\ ~sev'.appended => samples' = samples
             /\ (sev.calls = 0) => ~sev'.appended
      ]_vars

\* a call that found the counter advanced but no time elapsed: nothing was
\* appended, the fields took the new reading
C21_Witness ==
    /\ sev.calls >= 2
    /\ sev.prev_height # None
    /\ sev.height # None
    /\ sev.height > sev.prev_height
    /\ ~sev.appended
    /\ Len(samples) = sev.prev_len
    /\ Len(samples) > 0
    /\ last_height = sev.height
    /\ last_time = clock

\* C22: eviction is first-in first-out: after updates that computed k rates,
\* samples is the last min(window, k) of them in arrival order.
C22_FifoEviction ==
    LET k == Len(sev.rates)
    IN  samples = SubSeq(sev.rates, k - Min(window, k) + 1, k)

\* C23: get_stats returns (None, None) exactly when no sample is retained;
\* otherwise the EMA is the alpha = 0.2 recurrence seeded with the oldest
\* retained sample (with one sample it is that sample), and for a strictly
\* increasing counter read at positive intervals it is not greater than the
\* largest rate observed.
C23_EmaWithinObserved ==
    (sev.calls > 0)
        => /\ sev.stats.none <=> (samples = <<>>)
           /\ (Len(samples) = 1) => FloatEq(sev.stats.ema, Rate(samples[1]))
           /\ ~sev.stats.none
                => \E i \in DOMAIN sev.rates :
                      ~FloatLess(Rate(sev.rates[i]), sev.stats.ema)

\* C24: _monotonic_progress returns a subsequence of its input in the input
\* order: the first sample is always kept, and a later sample is kept exactly
\* when its Fulcrum height is strictly greater than the height of the sample
\* kept last before it, or its lag strictly less than that sample's lag.
C24_MonotonicFilter ==
    eta_out.called
        => LET kept == eta_out.kept
               IsKept(i) == \E k \in DOMAIN kept : kept[k] = i
               LastKeptBefore(i) ==
                   CHOOSE j \in 1..(i - 1) :
                       IsKept(j) /\ \A l \in (j + 1)..(i - 1) : ~IsKept(l)
           IN  /\ \A k \in DOMAIN kept : kept[k] \in DOMAIN monitor_log
               /\ \A k \in 1..(Len(kept) - 1) : kept[k] < kept[k + 1]
               /\ (monitor_log # <<>>) => IsKept(1)
               /\ \A i \in 2..Len(monitor_log) :
                     IsKept(i)
                       <=> \/ monitor_log[i].fulcrum_height
                                > monitor_log[LastKeptBefore(i)].fulcrum_height
                           \/ monitor_log[i].lag < monitor_log[LastKeptBefore(i)].lag

\* a log of five lines of which the filter kept the first, dropped a line
\* equal to it, kept a line for its height alone and one for its lag alone,
\* and dropped a line with no higher height and no lower lag
C24_Witness ==
    /\ eta_out.called
    /\ Len(monitor_log) = 5
    /\ eta_out.kept = <<1, 3, 4>>
    /\ monitor_log[2].fulcrum_height = monitor_log[1].fulcrum_height
    /\ monitor_log[2].lag = monitor_log[1].lag
    /\ monitor_log[3].fulcrum_height > monitor_log[1].fulcrum_height
    /\ monitor_log[3].lag >= monitor_log[1].lag
    /\ monitor_log[4].fulcrum_height <= monitor_log[3].fulcrum_height
    /\ monitor_log[4].lag < monitor_log[3].lag
    /\ monitor_log[5].fulcrum_height <= monitor_log[4].fulcrum_height
    /\ monitor_log[5].lag >= monitor_log[4].lag

\* C25: compute_eta_and_charts yields no ETA, only an error text and no chart
\* paths, whenever fewer than five samples survive the filter or the samples
\* kept all carry the same timestamp; the failure is returned, never raised.
C25_NoEtaWithoutData ==
    LET kept == eta_out.kept
        same_second == \A j, k \in DOMAIN kept :
                           monitor_log[kept[j]].t = monitor_log[kept[k]].t
    IN  (eta_out.called /\ (Len(kept) < min_points \/ same_second))
            => /\ ~eta_out.has_eta
               /\ ~eta_out.charts
               /\ ~eta_out.raised
               /\ eta_out.text # ""
               /\ eta_out.eta_seconds = NoFraction

\* five lines written in the same second, each kept by the filter, and the
\* call answered with the text of the zero time span
C25_Witness ==
    /\ eta_out.called
    /\ Len(eta_out.kept) = min_points
    /\ monitor_log[eta_out.kept[min_points]].t = monitor_log[eta_out.kept[1]].t
    /\ eta_out.text = "Could not fit regression-based ETA: time span of samples is zero"
    /\ ~eta_out.has_eta /\ ~eta_out.charts

\* C26: no ETA is produced when the least-squares slope of the Fulcrum height
\* over time is zero or negative: compute_eta_and_charts then returns an
\* error text and no chart, and every ETA summary it produces rests on a
\* slope strictly greater than zero.
C26_NoEtaOnNonPositiveSlope ==
    LET kept == eta_out.kept
        n == Len(kept)
        t == [k \in 1..n |-> monitor_log[kept[k]].t - monitor_log[kept[1]].t]
        h == [k \in 1..n |-> monitor_log[kept[k]].fulcrum_height]
        covariance == n * SumOver([k \in 1..n |-> t[k] * h[k]], n)
                          - SumOver(t, n) * SumOver(h, n)
        variance == n * SumOver([k \in 1..n |-> t[k] * t[k]], n)
                        - SumOver(t, n) * SumOver(t, n)
    IN  eta_out.called =>
            /\ (n >= min_points /\ variance > 0 /\ covariance <= 0)
                   => /\ ~eta_out.has_eta
                      /\ ~eta_out.charts
                      /\ ~eta_out.raised
                      /\ eta_out.text \in
                           { "Could not fit regression-based ETA: regression speed non-positive",
                             "numpy is not installed" }
            /\ eta_out.has_eta
                   => /\ variance > 0 /\ covariance > 0
                      /\ eta_out.speed = Fraction(covariance, variance)
                      /\ eta_out.speed.n > 0 /\ eta_out.speed.d > 0

\* five samples kept over 40 minutes, each for its falling lag while the
\* Fulcrum height fell, and the call answered with the text of the
\* non-positive speed
C26_Witness ==
    /\ eta_out.called
    /\ Len(eta_out.kept) = min_points
    /\ \A k \in 1..(min_points - 1) :
          /\ monitor_log[eta_out.kept[k + 1]].t > monitor_log[eta_out.kept[k]].t
          /\ monitor_log[eta_out.kept[k + 1]].fulcrum_height
                 < monitor_log[eta_out.kept[k]].fulcrum_height
    /\ eta_out.text = "Could not fit regression-based ETA: regression speed non-positive"
    /\ ~eta_out.has_eta /\ ~eta_out.charts

\* C27: for five retained samples evenly spaced in time with a constant
\* positive height step, the fitted slope is step / interval and the central
\* ETA is the remaining lag divided by the slope; heights 100, 160, 220, 280,
\* 340 at 0, 600, 1200, 1800, 2400 s give 0.1 blocks/s, and a lag of 1000
\* blocks gives 10000 s.
C27_EvenSamplesSlope ==
    LET kept == eta_out.kept
        n == Len(kept)
        r == [k \in 1..n |-> monitor_log[kept[k]]]
        interval == r[2].t - r[1].t
        step == r[2].fulcrum_height - r[1].fulcrum_height
        even == /\ n = min_points
                /\ interval > 0 /\ step > 0
                /\ \A k \in 1..(n - 1) :
                      /\ r[k + 1].t - r[k].t = interval
                      /\ r[k + 1].fulcrum_height - r[k].fulcrum_height = step
    IN  (eta_out.called /\ even)
            => /\ FitRegression(r).ok
               /\ FitRegression(r).a = Fraction(step, interval)
               /\ eta_out.has_eta
                    => /\ eta_out.speed = Fraction(step, interval)
                       /\ eta_out.eta_seconds = Fraction(r[n].lag * interval, step)
               /\ ( /\ eta_out.has_eta
                    /\ r[n].lag = 1000
                    /\ interval = 600
                    /\ [k \in 1..n |-> r[k].fulcrum_height] = <<100, 160, 220, 280, 340>> )
                    => /\ eta_out.speed = [n |-> 1, d |-> 10]
                       /\ eta_out.eta_seconds = [n |-> 10000, d |-> 1]

\* the log of the example: heights 100 to 340 in steps of 60 every 600 s with
\* 1000 blocks left, answered with 0.1 blocks/s and 10000 s
C27_Witness ==
    /\ eta_out.called /\ eta_out.has_eta
    /\ eta_out.kept = <<1, 2, 3, 4, 5>>
    /\ [k \in 1..5 |-> monitor_log[k].fulcrum_height] = <<100, 160, 220, 280, 340>>
    /\ [k \in 1..5 |-> monitor_log[k].t] = <<0, 600, 1200, 1800, 2400>>
    /\ monitor_log[5].lag = 1000
    /\ eta_out.speed = [n |-> 1, d |-> 10]
    /\ eta_out.eta_seconds = [n |-> 10000, d |-> 1]

\* C28: whenever an ETA band is produced, by the regression of eta_model or
\* as the 1-sigma window of speed_history, both speeds it divides by are
\* strictly positive and optimistic ETA <= central ETA <= pessimistic ETA.
C28_BandOrdered ==
    /\ eta_out.has_eta
         => /\ eta_out.fast_speed.n > 0 /\ eta_out.fast_speed.d > 0
            /\ eta_out.slow_speed.n > 0 /\ eta_out.slow_speed.d > 0
            /\ FractionLeq(eta_out.eta_fast_seconds, eta_out.eta_seconds)
            /\ FractionLeq(eta_out.eta_seconds, eta_out.eta_slow_seconds)
    /\ window_out.has_window
         => /\ SurdPositive(window_out.hi_speed)
            /\ SurdPositive(window_out.lo_speed)
            /\ SurdLeq(window_out.lo_speed, window_out.avg_speed)
            /\ SurdLeq(window_out.avg_speed, window_out.hi_speed)
            /\ SurdLeq(window_out.low_h, window_out.central_h)
            /\ SurdLeq(window_out.central_h, window_out.high_h)

\* a speed report over the speeds 0.001 and 0.009 block/s with 3 blocks left:
\* the mean is 0.005, the deviation 0.004, and the slower speed of the window
\* is the quarter of the mean, not the 0.001 one deviation below it
C28_Witness ==
    /\ window_out.has_window /\ window_out.clamped
    /\ window_out.count = 2
    /\ window_out.lag_blocks = 3
    /\ window_out.avg_speed = [a |-> 10, b |-> 0, v |-> 64, d |-> 2]
    /\ window_out.hi_speed = [a |-> 10, b |-> 1, v |-> 64, d |-> 2]
    /\ window_out.lo_speed = [a |-> 5, b |-> 0, v |-> 64, d |-> 4]
    /\ ~SurdLeq(window_out.central_h, window_out.low_h)
    /\ ~SurdLeq(window_out.high_h, window_out.central_h)

\* C29: _handle_update invokes a callback or sends anything only for a
\* message whose chat id equals the configured chat id; every other update
\* is ignored, with no callback and no outbound call.
C29_OnlyConfiguredChat ==
    (tg_reply.invoked # <<>> \/ tg_reply.calls # <<>>)
        => tg_update.chat_id = chat_id

C31_TypingBeforeText ==
    ( /\ tg_reply.handled
      /\ tg_reply.cmd = "/investigate_datum"
      /\ "investigate_datum" \in callbacks )
        => /\ tg_reply.invoked = <<"investigate_datum">>
           /\ Len(tg_reply.calls) = 2
           /\ tg_reply.calls[1].method = "send_chat_action"
           /\ tg_reply.calls[1].text = "typing"
           /\ tg_reply.calls[2].method = "send_text"
           /\ \A k \in DOMAIN tg_reply.calls :
                 tg_reply.calls[k].method = "send_text"
                     => \E j \in 1..(k - 1) :
                           tg_reply.calls[j].method = "send_chat_action"

\* "/id" from the configured chat: the typing action, then the callback's
\* text with its shortcuts
C31_Witness ==
    /\ tg_update.chat_id = chat_id
    /\ tg_update.text = << [slash |-> TRUE, word |-> "id"] >>
    /\ tg_reply.invoked = <<"investigate_datum">>
    /\ tg_reply.calls = << [ method |-> "send_chat_action", text |-> "typing",
                             shortcuts |-> <<>> ],
                           [ method |-> "send_text", text |-> "OK",
                             shortcuts |-> <<"/status", "/mining", "/help">> ] >>

\* C32: if the Fulcrum height, the counter the monitor watches, cannot be
\* read at startup, the process refuses to start: it never runs a tick of
\* the main loop while no reading of it has ever succeeded.
C32_RefusesToStart ==
    ~( /\ ev.ticked
       /\ ev.ful = None
       /\ last_fulcrum_height = None
       /\ loop_start > StartTime )

\* C33: on every tick of BitaxeChecker with a snapshot fetched in which the
\* hash rate is absent or below min_hashrate_hs, or the accepted-share count
\* has not changed for no_share_sec, the URGENT alert is sent unless an
\* urgent alert was sent less than alert_cooldown_sec earlier, whatever the
\* other fields of the snapshot, the fallback stratum included.
C33_UrgentWhenNotMining ==
    (bev.ticked /\ bev.ok /\ bev.not_mining)
        => \/ bev.notprog_alert
           \/ bev.ts - bitaxe_last_urgent_ts < bitaxe_alert_cooldown_sec

\* C34: whenever a snapshot fetched reports an accepted-share count that
\* differs from the count of the latest snapshot fetched before it,
\* _last_accept_change_ts is set to the snapshot's time, also when fetches
\* failed between the two.
C34_ProgressResetsTimer ==
    (bev.ticked /\ bev.progress)
        => bitaxe_last_accept_change_ts = bev.ts


\* C35: automatic recovery is considered only on the tick that emits the
\* stall alert, which happens while the episode is not yet notified; on every
\* later tick of the same episode (stall_notified set, height not changed)
\* there is no probe, no restart, and last_recovery_time stays as it was,
\* also when the recovery was skipped on the alerting tick.
C35_RecoveryOncePerEpisode ==
    [][ (pc = "heights" /\ ev'.ticked) =>
          /\ (ev'.recovery # "none" => (ev'.stall_alert /\ ~stall_notified))
          /\ ((stall_notified /\ ~ev'.changed) =>
                /\ ev'.recovery = "none"
                /\ ~ev'.probe
                /\ ~ev'.restart
                /\ last_recovery_time' = last_recovery_time
                /\ fulcrum_restarted_at' = fulcrum_restarted_at) ]_vars

\* a later tick of a notified episode on which the feature flag and the rate
\* limit would let a restart through, and none was ever made
C35_Witness ==
    /\ ev.ticked /\ ev.was_notified /\ ~ev.changed
    /\ ev.btc # None /\ ev.ful # None
    /\ stall_notified
    /\ enable_auto_restart
    /\ loop_start - last_recovery_time > min_recovery_interval
    /\ fulcrum_restarted_at = None
    /\ ev.recovery = "none"


\* C36: on a main-loop tick where the bitcoind height or the Fulcrum height
\* could not be read, last_fulcrum_height, last_height_change_time,
\* stall_notified, last_recovery_time and the rate tracker keep their values,
\* and the tick emits no stall alert and attempts no recovery.
C36_UnreadableTickFrame ==
    [][ (pc = "heights" /\ ev'.ticked /\ (ev'.btc = None \/ ev'.ful = None)) =>
          /\ last_fulcrum_height' = last_fulcrum_height
          /\ last_height_change_time' = last_height_change_time
          /\ stall_notified' = stall_notified
          /\ last_recovery_time' = last_recovery_time
          /\ samples' = samples
          /\ last_height' = last_height
          /\ last_time' = last_time
          /\ ~ev'.stall_alert
          /\ ~ev'.probe
          /\ ev'.recovery = "none" ]_vars

\* bitcoind was unreadable on a tick where the Fulcrum height was read and is
\* the recorded one, the stall threshold is exceeded and no alert was sent yet
C36_Witness ==
    /\ ev.ticked /\ ev.btc = None /\ ev.ful # None
    /\ ev.ful = last_fulcrum_height
    /\ ~stall_notified
    /\ last_height_change_time # None
    /\ loop_start - last_height_change_time > stall_threshold


\* C37: the controller feeds the rate tracker and writes the 'Heights:' audit
\* record only on ticks where the Fulcrum height differs from the recorded
\* one; so every sample of the controller's tracker has a positive height
\* difference over a positive time (a strictly positive rate, never zero),
\* and last_logged_height equals last_fulcrum_height.
C37_TrackerFedOnChange ==
    /\ (sev.updated => (ev.ticked /\ ev.changed /\ sev.height # sev.prev_height))
    /\ (\E k \in 1..Len(audit) : audit[k] = <<"log", "Heights">>)
           => (ev.ticked /\ ev.changed)
    /\ \A k \in 1..Len(samples) : samples[k][1] > 0 /\ samples[k][2] > 0
    /\ last_logged_height = last_fulcrum_height
    /\ last_height = last_fulcrum_height

\* the tracker holds a sample, and the last tick read an unchanged height,
\* which was not fed to it
C37_Witness ==
    /\ ev.ticked /\ ev.btc # None /\ ev.ful # None /\ ~ev.changed
    /\ ~sev.updated
    /\ Len(samples) >= 1
    /\ last_logged_height = ev.ful


\* C38: on a watchdog tick where the DATUM service is not active the job log
\* is not examined: _last_job_ts, _last_job_info and
\* _last_zero_client_alert_ts keep their values, and neither the zero-client
\* alert nor the no-job alert is emitted (only 'not active' can be).
C38_InactiveTickFrame ==
    [][ (pc = "datum" /\ dev'.ticked /\ ~dev'.active) =>
          /\ ~dev'.job_read
          /\ datum_last_job_ts' = datum_last_job_ts
          /\ datum_last_job_info' = datum_last_job_info
          /\ datum_last_zero_client_alert_ts' = datum_last_zero_client_alert_ts
          /\ ~dev'.zero_detected /\ ~dev'.zero_alert
          /\ ~dev'.nojob_detected /\ ~dev'.nojob_alert
          /\ \A k \in 1..Len(audit') :
                 audit'[k][2] \notin {"DATUM 0 stratum clients",
                                       "DATUM no new jobs"} ]_vars

\* the service is down on a tick where the last job seen is older than
\* no_job_sec and the shared cooldown does not hold the alert back
C38_Witness ==
    /\ dev.ticked /\ ~dev.active
    /\ dev.inactive_alert
    /\ datum_last_job_ts # None
    /\ dev.now - datum_last_job_ts > datum_no_job_sec


\* C39: a POST without the correct X-Control-Token (also whenever the token
\* file is empty or unreadable), to a path other than /mode, with invalid
\* JSON, or naming a mode outside {direct, relay, auto}, is answered 403, 404
\* or 400, leaves local.env as it was and does not restart the monitor.
C39_RejectedWithoutSideEffects ==
    [][ (cev'.posted /\ ctl_requests' # ctl_requests
         /\ (\/ ~cev'.authorized
             \/ cev'.path # "/mode"
             \/ cev'.json = "invalid"
             \/ cev'.mode \notin ALLOWED_MODES)) =>
          /\ cev'.code \in {403, 404, 400}
          /\ ctl_env' = ctl_env
          /\ ctl_last_restart_ts' = ctl_last_restart_ts
          /\ cev'.restart = "" ]_vars


\* C40: the loop handles the updates of a batch in the order given and sets
\* _offset to id + 1 after each, also when the handler raised: across polls
\* the handled ids are strictly increasing (none is handled twice), every
\* update of a batch is handled, those after a raising one included, and
\* _offset is the last handled id + 1.
C40_HandledOnceInOrder ==
    /\ \A j, k \in 1..Len(tg_handled) : j < k => tg_handled[j] < tg_handled[k]
    /\ \A k \in 1..Len(tg_batch) :
           /\ Len(tg_handled) >= Len(tg_batch)
           /\ tg_handled[Len(tg_handled) - Len(tg_batch) + k] = tg_batch[k]
    /\ tg_handled # <<>> => tg_offset = tg_handled[Len(tg_handled)] + 1
    /\ tg_raised \subseteq {tg_handled[k] : k \in 1..Len(tg_handled)}

\* the first update of a batch of two raised, the second was handled and
\* answered, and a later poll brought one more update
C40_Witness ==
    /\ Len(tg_handled) >= 3
    /\ Len(tg_batch) = 1
    /\ tg_handled[1] \in tg_raised
    /\ tg_handled[2] \notin tg_raised
    /\ tg_handled[Len(tg_handled)] \in tg_raised
    /\ tg_reply.invoked # <<>> /\ tg_reply.calls = <<>>

====
